---- MODULE Spec2Model ----
(***************************************************************************)
(* The collection cycle of the bambu_collector management command: the     *)
(* inventory matcher, the spool status update, the slot snapshots, the     *)
(* print-job tracker and the consumption accounting, over the tables of    *)
(* bambu_run/models.py.                                                    *)
(*                                                                         *)
(* Conventions.  A nullable string column holds NULL or a string.  A       *)
(* nullable integer, reference or timestamp column holds None (<<>>) or    *)
(* Some(n) (<<n>>).  Filament.current_tray_id holds None, PyInt(n) (what   *)
(* the IntegerField column gives back) or PyStr(n) (the digit string the   *)
(* projector puts in tray_data['tray_id']).  Colors are sequences of       *)
(* one-character strings, so that slicing and upper-casing are computed.   *)
(* A row's primary key is its index in the table's sequence.               *)
(***************************************************************************)
EXTENDS Integers, Sequences, FiniteSets, TLC

VARIABLES
    filaments,          \* table Filament
    metrics,            \* table PrinterMetrics
    snapshots,          \* table FilamentSnapshot
    jobs,               \* table PrintJob
    usages,             \* table FilamentUsage
    current_print_job,  \* Command.current_print_job (None or Some(job))
    last_gcode_state,   \* Command.last_gcode_state
    last_subtask_name,  \* Command.last_subtask_name
    trays_used,         \* Command.trays_used
    error_count,        \* Command.error_count
    success_count,      \* Command.success_count
    mqtt_connect_errors,\* Command.mqtt_connect_errors
    now,                \* the clock read by timezone.now()
    matched,            \* history: the matcher calls of the last cycle
    outcome,            \* history: how the last cycle ended
    observed,           \* history: what the last cycle pulled
    state_data,         \* PrinterStateAccumulator._state_data["print"]
    received,           \* history: the last message given to the accumulator
    merging,            \* the callback thread inside _deep_merge (None: idle)
    deltas,             \* history: the messages the callback thread took up
    cleanup,            \* history: the cutoff and the options of the last cleanup
    exit_status         \* how Command.handle stands: running or ended

vars == <<filaments, metrics, snapshots, jobs, usages, current_print_job,
          last_gcode_state, last_subtask_name, trays_used, error_count,
          success_count, mqtt_connect_errors, now, matched, outcome,
          observed, state_data, received, merging, deltas, cleanup,
          exit_status>>

-----------------------------------------------------------------------------
(* Python / SQL values *)

NULL == "NULL"
None == <<>>
Some(n) == <<n>>
PyInt(n) == <<"int", n>>
PyStr(n) == <<"str", n>>

\* bool(s) of a nullable string
Truthy(s) == s # NULL /\ s # ""

\* bool(c) of a color (a sequence of characters, or the empty string '')
TruthyColor(c) == Len(c) > 0

\* IntegerField.get_prep_value: int(value) of what is written to the column
ToDbInt(v) == IF v = None THEN None ELSE PyInt(v[2])

\* the elements of a sequence
Range(s) == {s[i] : i \in DOMAIN s}

-----------------------------------------------------------------------------
(* int(w * (p / 100.0)) in IEEE-754 double arithmetic, for integers w >= 0  *)
(* and p.  p/100.0 is the double nearest to p/100; with s the scaling that  *)
(* puts its 53-bit significand in place, the sign of its rounding error is  *)
(* given by r = p * 2^s mod 100 (r < 50: rounded down, r > 50: rounded up). *)
(* The product can fall below the exact quotient q only when 100 divides    *)
(* w*p and the quotient was rounded down by more than half an ulp of q.     *)

RECURSIVE Pow2(_)
Pow2(n) == IF n = 0 THEN 1 ELSE 2 * Pow2(n - 1)

RECURSIVE Pow2Mod100(_)
Pow2Mod100(s) == IF s = 0 THEN 1 ELSE (2 * Pow2Mod100(s - 1)) % 100

\* the largest a >= 0 with 2^a * d <= n, for n >= d > 0
RECURSIVE Log2Up(_, _)
Log2Up(n, d) == IF 2 * d <= n THEN 1 + Log2Up(n, 2 * d) ELSE 0

\* the smallest k >= 0 with d <= 2^k * n, for 0 < n
RECURSIVE Log2Down(_, _)
Log2Down(n, d) == IF n >= d THEN 0 ELSE 1 + Log2Down(2 * n, d)

\* floor(log2(n / d)), for n, d > 0
FloorLog2(n, d) == IF n >= d THEN Log2Up(n, d) ELSE 0 - Log2Down(n, d)

FloatMulPercentPos(w, p) ==
    LET q == (w * p) \div 100
        a == FloorLog2(p, 100)
        s == 52 - a
        r == ((p % 100) * Pow2Mod100(s)) % 100
        e == FloorLog2(q, 1)
        half_ulp == (IF q = Pow2(e) THEN 25 ELSE 50) * Pow2(e - a)
    IN  IF (w * p) % 100 # 0 THEN q
        ELSE IF r = 0 \/ r > 50 THEN q
        ELSE IF w * r > half_ulp THEN q - 1 ELSE q

FloatMulPercent(w, p) ==
    IF w = 0 \/ p = 0 THEN 0
    ELSE IF p < 0 THEN 0 - FloatMulPercentPos(w, 0 - p)
    ELSE FloatMulPercentPos(w, p)

-----------------------------------------------------------------------------
(* bambu_run/utils.py *)

Upper(c) ==
    CASE c = "a" -> "A" [] c = "b" -> "B" [] c = "c" -> "C"
      [] c = "d" -> "D" [] c = "e" -> "E" [] c = "f" -> "F"
      [] OTHER -> c

UpperAll(cs) == [i \in DOMAIN cs |-> Upper(cs[i])]

\* a normalization that cuts codes of 8 characters only
strip_color_padding_of_8(mqtt_color) ==
    IF ~TruthyColor(mqtt_color) THEN None
    ELSE IF Len(mqtt_color) = 8 THEN Some(UpperAll(SubSeq(mqtt_color, 1, 6)))
    ELSE Some(UpperAll(mqtt_color))

\* strip_color_padding: None for a falsy color
strip_color_padding(mqtt_color) ==
    IF ~TruthyColor(mqtt_color) THEN None
    ELSE IF Len(mqtt_color) = 8 THEN Some(UpperAll(SubSeq(mqtt_color, 1, 6)))
    ELSE IF Len(mqtt_color) >= 6 THEN Some(UpperAll(SubSeq(mqtt_color, 1, 6)))
    ELSE Some(UpperAll(mqtt_color))

\* AUTO_CREATE_BRAND
DefaultBrand == "Bambu Lab"

\* The rows of table FilamentColor (the color registry; the collector only
\* reads it).
FilamentColors ==
    { [color_code |-> <<"F", "F", "0", "0", "0", "0">>,
       color_name |-> <<"R", "e", "d">>,
       filament_type |-> "PLA", filament_sub_type |-> "PLA Basic",
       brand |-> "Bambu Lab"] }

\* match_filament_color: the registry rows .first() can return ({} for None)
match_filament_color(filament_type, filament_sub_type, color_code, brand) ==
    IF ~Truthy(filament_type) \/ color_code = None THEN {}
    ELSE LET exact == {c \in FilamentColors :
                         /\ c.filament_type = filament_type
                         /\ c.filament_sub_type = filament_sub_type
                         /\ c.color_code = color_code[1]
                         /\ c.brand = brand}
             loose == {c \in FilamentColors :
                         /\ c.filament_type = filament_type
                         /\ c.color_code = color_code[1]
                         /\ c.brand = brand}
         IN  IF Truthy(filament_sub_type) /\ exact # {} THEN exact ELSE loose

-----------------------------------------------------------------------------
(* bambu_run/models.py: Filament *)

\* Filament.update_remaining_weight
update_remaining_weight(f) ==
    IF f.initial_weight_grams # None /\ f.initial_weight_grams[1] # 0
    THEN [f EXCEPT !.remaining_weight_grams =
              Some(FloatMulPercent(f.initial_weight_grams[1], f.remaining_percent))]
    ELSE f

\* Model.save() of an in-memory Filament: every field is written to its row;
\* the IntegerField current_tray_id stores int(value).
SaveFilament(db, f) ==
    [db EXCEPT ![f.id] = [f EXCEPT !.current_tray_id = ToDbInt(f.current_tray_id)]]

\* The unique=True constraint on Filament.tray_uuid: a second row with the
\* same non-NULL value is an IntegrityError ('' is a value, not NULL).
TrayUuidTaken(db, tray_uuid) ==
    tray_uuid # NULL /\ \E i \in DOMAIN db : db[i].tray_uuid = tray_uuid

-----------------------------------------------------------------------------
(* bambu_collector.py: the inventory matcher *)

\* a.last_used sorts strictly before b.last_used in ascending order: SQLite
\* puts NULL first
LastUsedBefore(a, b) ==
    \/ a.last_used = None /\ b.last_used # None
    \/ a.last_used # None /\ b.last_used # None /\ a.last_used[1] < b.last_used[1]

\* ORDER BY remaining_percent, last_used
OrderedBefore(a, b) ==
    \/ a.remaining_percent < b.remaining_percent
    \/ /\ a.remaining_percent = b.remaining_percent
       /\ LastUsedBefore(a, b)

\* .order_by('remaining_percent', 'last_used').first() over the rows ids:
\* the rows that can come first (rows equal on both keys come in any order)
FirstOrdered(db, ids) ==
    {i \in ids : \A j \in ids : ~OrderedBefore(db[j], db[i])}

\* Filament.objects.filter(type=..., color=..., [sub_type=...], [is_loaded_in_ams=False])
HeuristicFilter(db, tray_data, unloaded_only) ==
    {i \in DOMAIN db :
        /\ db[i].type = tray_data.type
        /\ db[i].color = tray_data.color
        /\ Truthy(tray_data.sub_type) => db[i].sub_type = tray_data.sub_type
        /\ unloaded_only => ~db[i].is_loaded_in_ams}

\* the heuristic step without its preference for unloaded spools
HeuristicMatchAnyLoaded(db, tray_data) ==
    IF Truthy(tray_data.type) /\ TruthyColor(tray_data.color)
    THEN FirstOrdered(db, HeuristicFilter(db, tray_data, FALSE))
    ELSE {}

\* lines 292-309: the type + sub_type + color step
HeuristicMatch(db, tray_data) ==
    IF Truthy(tray_data.type) /\ TruthyColor(tray_data.color)
    THEN LET unloaded == FirstOrdered(db, HeuristicFilter(db, tray_data, TRUE))
         IN  IF unloaded # {} THEN unloaded
             ELSE FirstOrdered(db, HeuristicFilter(db, tray_data, FALSE))
    ELSE {}

\* _auto_create_filament: the new in-memory Filament and the table after
\* create() and save(); failed when create() raises IntegrityError
AutoCreateFilament(db, tray_data, t) ==
    LET color_code == strip_color_padding(tray_data.color)
        color_hex == IF color_code # None THEN Some(<<"#">> \o color_code[1]) ELSE None
        reg == match_filament_color(tray_data.type, tray_data.sub_type,
                                    color_code, DefaultBrand)
        names == IF reg # {} THEN {c.color_name : c \in reg} ELSE {tray_data.color}
        new(color_name) ==
            update_remaining_weight(
              [id |-> Len(db) + 1,
               tray_uuid |-> tray_data.tray_uuid,
               tag_uid |-> tray_data.tag_uid,
               tag_id |-> NULL,
               type |-> tray_data.type,
               sub_type |-> tray_data.sub_type,
               color |-> color_name,
               color_hex |-> color_hex,
               diameter |-> tray_data.tray_diameter,
               initial_weight_grams |-> Some(tray_data.tray_weight),
               remaining_percent |-> tray_data.remain_percent,
               remaining_weight_grams |-> None,
               created_by |-> "Auto Detection",
               is_loaded_in_ams |-> TRUE,
               current_tray_id |-> PyStr(tray_data.tray_id),
               last_loaded_date |-> Some(t),
               last_used |-> None])
    IN  IF TrayUuidTaken(db, tray_data.tray_uuid)
        THEN {[filament |-> None, method |-> "auto_created", db |-> db, failed |-> TRUE]}
        ELSE {[filament |-> Some(new(n)), method |-> "auto_created",
               db |-> SaveFilament(Append(db, new(n)), new(n)), failed |-> FALSE]
                 : n \in names}

\* a matcher that asks the heuristic step before the identity keys
MatchHeuristicFirst(db, tray_data, t) ==
    LET by_tray_uuid == IF Truthy(tray_data.tray_uuid)
                        THEN {i \in DOMAIN db : db[i].tray_uuid = tray_data.tray_uuid}
                        ELSE {}
        by_tag_uid == IF Truthy(tray_data.tag_uid)
                      THEN {i \in DOMAIN db : db[i].tag_uid = tray_data.tag_uid}
                      ELSE {}
        by_tag_id == IF Truthy(tray_data.tag_id)
                     THEN {i \in DOMAIN db : db[i].tag_id = tray_data.tag_id}
                     ELSE {}
        heuristic == HeuristicMatch(db, tray_data)
        hits(ids, method) ==
            {[filament |-> Some(db[i]), method |-> method, db |-> db, failed |-> FALSE]
               : i \in ids}
    IN  IF heuristic # {} THEN hits(heuristic, "type_sub_type_color")
        ELSE IF by_tray_uuid # {} THEN hits(by_tray_uuid, "tray_uuid")
        ELSE IF by_tag_uid # {} THEN hits(by_tag_uid, "tag_uid")
        ELSE IF by_tag_id # {} THEN hits(by_tag_id, "tag_id")
        ELSE AutoCreateFilament(db, tray_data, t)

\* the result of one identity or heuristic step: the rows .first() can return
Hits(db, ids, method) ==
    {[filament |-> Some(db[i]), method |-> method, db |-> db, failed |-> FALSE] : i \in ids}

\* _match_filament_to_inventory: the possible (filament, method) results
\* with the table afterwards
MatchFilamentToInventory(db, tray_data, t) ==
    LET by_tray_uuid == IF Truthy(tray_data.tray_uuid)
                        THEN {i \in DOMAIN db : db[i].tray_uuid = tray_data.tray_uuid}
                        ELSE {}
        by_tag_uid == IF Truthy(tray_data.tag_uid)
                      THEN {i \in DOMAIN db : db[i].tag_uid = tray_data.tag_uid}
                      ELSE {}
        by_tag_id == IF Truthy(tray_data.tag_id)
                     THEN {i \in DOMAIN db : db[i].tag_id = tray_data.tag_id}
                     ELSE {}
        heuristic == HeuristicMatch(db, tray_data)
    IN  IF by_tray_uuid # {} THEN Hits(db, by_tray_uuid, "tray_uuid")
        ELSE IF by_tag_uid # {} THEN Hits(db, by_tag_uid, "tag_uid")
        ELSE IF by_tag_id # {} THEN Hits(db, by_tag_id, "tag_id")
        ELSE IF heuristic # {} THEN Hits(db, heuristic, "type_sub_type_color")
        ELSE AutoCreateFilament(db, tray_data, t)

\* _update_filament_status on the in-memory filament f: the possible tables
\* afterwards.  tray_id is the digit string of the observation; the column
\* filter current_tray_id=tray_id compares int(tray_id).
UpdateFilamentStatus(db, f, tray_id, remain_percent, t) ==
    LET f1 == IF f.remaining_percent # remain_percent
              THEN [update_remaining_weight(
                        [f EXCEPT !.remaining_percent = remain_percent])
                      EXCEPT !.last_used = Some(t)]
              ELSE f
        relocate == ~f1.is_loaded_in_ams \/ f1.current_tray_id # PyStr(tray_id)
        previous == {i \in DOMAIN db :
                        /\ db[i].is_loaded_in_ams
                        /\ db[i].current_tray_id = PyInt(tray_id)
                        /\ i # f.id}
        unload(i) == [db EXCEPT ![i].is_loaded_in_ams = FALSE,
                                ![i].current_tray_id = None]
        f2 == [f1 EXCEPT !.is_loaded_in_ams = TRUE,
                         !.current_tray_id = PyStr(tray_id),
                         !.last_loaded_date = Some(t)]
    IN  IF relocate
        THEN IF previous # {}
             THEN {SaveFilament(unload(i), f2) : i \in previous}
             ELSE {SaveFilament(db, f2)}
        ELSE {SaveFilament(db, f1)}

-----------------------------------------------------------------------------
(* bambu_collector.py: the slot snapshots of one cycle *)

\* one pass of the loop body of _create_filament_snapshots for tray_data:
\* the possible states afterwards.  st.db is the Filament table, st.snaps the
\* FilamentSnapshot rows created so far, st.log the matcher calls so far,
\* st.failed whether an exception has been raised.
SlotStep(st, metric_id, tray_data, t) ==
    LET done(m, db2) ==
            [db |-> db2,
             snaps |-> Append(st.snaps,
                         [printer_metric |-> metric_id,
                          filament |-> Some(m.filament[1].id),
                          tray_id |-> tray_data.tray_id,
                          remain_percent |-> Some(tray_data.remain_percent),
                          match_method |-> m.method]),
             log |-> Append(st.log,
                         [tray_data |-> tray_data, before |-> st.db,
                          filament |-> Some(m.filament[1].id),
                          method |-> m.method, raised |-> FALSE]),
             failed |-> FALSE]
        raise(m) ==
            [st EXCEPT !.failed = TRUE,
                       !.log = Append(st.log,
                                  [tray_data |-> tray_data, before |-> st.db,
                                   filament |-> None,
                                   method |-> m.method, raised |-> TRUE])]
    IN  UNION { IF m.failed THEN {raise(m)}
                ELSE {done(m, db2) :
                        db2 \in UpdateFilamentStatus(m.db, m.filament[1],
                                    tray_data.tray_id, tray_data.remain_percent, t)}
                : m \in MatchFilamentToInventory(st.db, tray_data, t) }

\* _create_filament_snapshots from the k-th observation on: the loop stops at
\* the first exception
RECURSIVE CreateFilamentSnapshots(_, _, _, _, _)
CreateFilamentSnapshots(st, metric_id, filaments_data, k, t) ==
    IF k > Len(filaments_data) \/ st.failed THEN {st}
    ELSE UNION { CreateFilamentSnapshots(st2, metric_id, filaments_data, k + 1, t)
                   : st2 \in SlotStep(st, metric_id, filaments_data[k], t) }

-----------------------------------------------------------------------------
(* bambu_collector.py: the print-job tracker *)

\* a start test that does not compare the name with the last-seen name
IsPrintStartingAnyName(gcode_state, subtask_name, last_name) ==
    /\ gcode_state \notin {"FINISH", "IDLE", "FAILED", NULL, ""}
    /\ Truthy(subtask_name)

\* a start test that takes a new name in any state, a terminal one included
IsPrintStartingAnyState(gcode_state, subtask_name, last_name) ==
    Truthy(subtask_name) /\ subtask_name # last_name

\* _is_print_starting
IsPrintStarting(gcode_state, subtask_name, last_name) ==
    LET is_printing == gcode_state \notin {"FINISH", "IDLE", "FAILED", NULL, ""}
        has_new_job == Truthy(subtask_name) /\ subtask_name # last_name
    IN  is_printing /\ has_new_job

\* _is_print_ending
IsPrintEnding(gcode_state, last_state) ==
    /\ gcode_state \in {"FINISH", "FAILED"}
    /\ last_state \notin {"FINISH", "FAILED"}

\* a duration rounded up to the next minute
calculate_duration_up(job) ==
    IF job.end_time # None
    THEN [job EXCEPT !.duration_minutes =
                        Some((job.end_time[1] - job.start_time + 59) \div 60)]
    ELSE job

\* PrintJob.calculate_duration: int(delta.total_seconds() / 60)
calculate_duration(job) ==
    IF job.end_time # None
    THEN [job EXCEPT !.duration_minutes = Some((job.end_time[1] - job.start_time) \div 60)]
    ELSE job

\* FilamentUsage.calculate_consumed; weight is usage.filament.initial_weight_grams
calculate_consumed(usage, weight) ==
    IF usage.ending_percent # None
    THEN LET consumed == usage.starting_percent - usage.ending_percent[1]
         IN  [usage EXCEPT
                !.consumed_percent = Some(consumed),
                !.consumed_grams =
                    IF weight # None /\ weight[1] # 0
                    THEN Some(FloatMulPercent(weight[1], consumed))
                    ELSE None]
    ELSE usage

\* x or 100
OrHundred(x) == IF x = None \/ x[1] = 0 THEN 100 ELSE x[1]

\* the trays of a set in the order Python iterates a set of small ints
RECURSIVE TraysInOrder(_)
TraysInOrder(S) ==
    IF S = {} THEN <<>>
    ELSE LET m == CHOOSE x \in S : \A y \in S : x <= y
         IN  <<m>> \o TraysInOrder(S \ {m})

\* <related manager>.filter(...).first() over table rows: of the rows ids
\* that match, the one with the lowest id, None when there is none
FirstRow(tbl, ids) ==
    IF ids = {} THEN None
    ELSE Some(tbl[CHOOSE i \in ids : \A j \in ids : i <= j])

\* an accounting that takes the end metric's snapshot of the slot, whatever
\* spool it is resolved to
UsageForSlotOnly(job, tray_id, used, snaps, db, metric_id) ==
    LET start_snap ==
            FirstRow(snaps, {i \in DOMAIN snaps :
                                /\ snaps[i].printer_metric = job.start_metric[1]
                                /\ snaps[i].tray_id = tray_id
                                /\ snaps[i].filament # None})
        end_snap ==
            FirstRow(snaps, {i \in DOMAIN snaps :
                                /\ snaps[i].printer_metric = metric_id
                                /\ snaps[i].tray_id = tray_id})
    IN  IF start_snap = None THEN <<>>
        ELSE << calculate_consumed(
                  [print_job |-> job.id,
                   filament |-> start_snap[1].filament[1],
                   tray_id |-> tray_id,
                   starting_percent |-> OrHundred(start_snap[1].remain_percent),
                   ending_percent |-> IF end_snap # None
                                      THEN end_snap[1].remain_percent ELSE None,
                   consumed_percent |-> None,
                   consumed_grams |-> None,
                   is_primary |-> (Cardinality(used) = 1)],
                  db[start_snap[1].filament[1]].initial_weight_grams) >>

\* lines 527-547 of _finalize_print_job for one tray: the FilamentUsage rows
\* it creates (none or one)
UsageFor(job, tray_id, used, snaps, db, metric_id) ==
    LET start_snap ==
            FirstRow(snaps, {i \in DOMAIN snaps :
                                /\ snaps[i].printer_metric = job.start_metric[1]
                                /\ snaps[i].tray_id = tray_id
                                /\ snaps[i].filament # None})
        end_snap ==
            FirstRow(snaps, {i \in DOMAIN snaps :
                                /\ snaps[i].printer_metric = metric_id
                                /\ snaps[i].filament = start_snap[1].filament
                                /\ snaps[i].tray_id = tray_id})
    IN  IF start_snap = None THEN <<>>
        ELSE << calculate_consumed(
                  [print_job |-> job.id,
                   filament |-> start_snap[1].filament[1],
                   tray_id |-> tray_id,
                   starting_percent |-> OrHundred(start_snap[1].remain_percent),
                   ending_percent |-> IF end_snap # None
                                      THEN end_snap[1].remain_percent ELSE None,
                   consumed_percent |-> None,
                   consumed_grams |-> None,
                   is_primary |-> (Cardinality(used) = 1)],
                  db[start_snap[1].filament[1]].initial_weight_grams) >>

RECURSIVE UsagesFor(_, _, _, _, _, _)
UsagesFor(job, trays, used, snaps, db, metric_id) ==
    IF trays = <<>> THEN <<>>
    ELSE UsageFor(job, Head(trays), used, snaps, db, metric_id)
           \o UsagesFor(job, Tail(trays), used, snaps, db, metric_id)

\* a finalization that leaves the tracker's open job and used trays in place
FinalizeKeepJob(tr, metric, snap, snaps, db) ==
    [tr EXCEPT !.jobs[tr.job[1].id] =
                  calculate_duration(
                    [tr.job[1] EXCEPT !.end_time = Some(metric.timestamp),
                                      !.end_metric = Some(metric.id),
                                      !.final_status = snap.gcode_state,
                                      !.completion_percent = snap.print_percent])]

\* a finalization that returns before it writes the job when no tray was
\* tracked
FinalizeTrackedOnly(tr, metric, snap, snaps, db) ==
    IF tr.used = {}
    THEN [tr EXCEPT !.job = None, !.used = {}]
    ELSE [tr EXCEPT
            !.jobs = [tr.jobs EXCEPT ![tr.job[1].id] =
                        calculate_duration(
                          [tr.job[1] EXCEPT !.end_time = Some(metric.timestamp),
                                            !.end_metric = Some(metric.id),
                                            !.final_status = snap.gcode_state,
                                            !.completion_percent = snap.print_percent])],
            !.usages = tr.usages
                         \o UsagesFor(tr.job[1], TraysInOrder(tr.used), tr.used,
                                      snaps, db, metric.id),
            !.job = None,
            !.used = {}]

\* _finalize_print_job.  tr is the tracker with its tables: tr.job the open
\* in-memory PrintJob, tr.used the used trays, tr.jobs and tr.usages the
\* PrintJob and FilamentUsage tables.
FinalizePrintJob(tr, metric, snap, snaps, db) ==
    LET job == calculate_duration(
                 [tr.job[1] EXCEPT !.end_time = Some(metric.timestamp),
                                   !.end_metric = Some(metric.id),
                                   !.final_status = snap.gcode_state,
                                   !.completion_percent = snap.print_percent])
        new_usages == IF job.start_metric = None \/ tr.used = {} THEN <<>>
                      ELSE UsagesFor(job, TraysInOrder(tr.used), tr.used,
                                     snaps, db, metric.id)
    IN  [tr EXCEPT !.jobs = [tr.jobs EXCEPT ![job.id] = job],
                   !.usages = tr.usages \o new_usages,
                   !.job = None,
                   !.used = {}]

\* int(tray_now) of the digit strings the model uses for tray_now; the other
\* values ('', '255', a non-number) are not recorded
TrayNowInt(tray_now) ==
    CASE tray_now = "0" -> Some(0)
      [] tray_now = "1" -> Some(1)
      [] tray_now = "2" -> Some(2)
      [] tray_now = "3" -> Some(3)
      [] tray_now = "15" -> Some(15)
      [] tray_now = "16" -> Some(16)
      [] tray_now = "254" -> Some(254)
      [] tray_now = "255" -> Some(255)
      [] OTHER -> None

\* a job creation that does not make the new job the tracker's open job
OpenJobUntracked(tr, metric, snap) ==
    [tr EXCEPT !.jobs = Append(tr.jobs,
                          [id |-> Len(tr.jobs) + 1,
                           project_name |-> snap.subtask_name,
                           start_time |-> metric.timestamp,
                           start_metric |-> Some(metric.id),
                           end_time |-> None,
                           end_metric |-> None,
                           final_status |-> NULL,
                           completion_percent |-> snap.print_percent,
                           duration_minutes |-> None]),
               !.used = {}]

\* lines 474-483: PrintJob.objects.create and the reset of trays_used
OpenJob(tr, metric, snap) ==
    LET new_job == [id |-> Len(tr.jobs) + 1,
                    project_name |-> snap.subtask_name,
                    start_time |-> metric.timestamp,
                    start_metric |-> Some(metric.id),
                    end_time |-> None,
                    end_metric |-> None,
                    final_status |-> NULL,
                    completion_percent |-> snap.print_percent,
                    duration_minutes |-> None]
    IN  [tr EXCEPT !.jobs = Append(tr.jobs, new_job),
                   !.job = Some(new_job),
                   !.used = {}]

\* a start that opens the new job without finalizing the open one
StartJobNoFinalize(tr, metric, snap, snaps, db) ==
    IF IsPrintStarting(snap.gcode_state, snap.subtask_name, tr.last_name)
    THEN OpenJob(tr, metric, snap)
    ELSE tr

\* lines 470-484: a starting print finalizes the open job, then opens one
StartJob(tr, metric, snap, snaps, db) ==
    IF IsPrintStarting(snap.gcode_state, snap.subtask_name, tr.last_name)
    THEN OpenJob(IF tr.job # None
                 THEN FinalizePrintJob(tr, metric, snap, snaps, db)
                 ELSE tr,
                 metric, snap)
    ELSE tr

\* a recording without the range test 0 <= tray_id <= 15
RecordTrayAnyNumber(tr, tray_now) ==
    IF /\ tr.job # None
       /\ tray_now \notin {NULL, "", "255"}
       /\ TrayNowInt(tray_now) # None
    THEN [tr EXCEPT !.used = tr.used \cup {TrayNowInt(tray_now)[1]}]
    ELSE tr

\* lines 486-494: the active tray joins trays_used while a job is open
RecordTray(tr, tray_now) ==
    IF /\ tr.job # None
       /\ tray_now \notin {NULL, "", "255"}
       /\ TrayNowInt(tray_now) # None
       /\ 0 <= TrayNowInt(tray_now)[1]
       /\ TrayNowInt(tray_now)[1] <= 15
    THEN [tr EXCEPT !.used = tr.used \cup {TrayNowInt(tray_now)[1]}]
    ELSE tr

\* lines 496-497: an ending print finalizes the open job
EndJob(tr, metric, snap, snaps, db) ==
    IF IsPrintEnding(snap.gcode_state, tr.last_state) /\ tr.job # None
    THEN FinalizePrintJob(tr, metric, snap, snaps, db)
    ELSE tr

\* a tracker that remembers the state but not the subtask name
RememberStateOnly(tr, snap) ==
    [tr EXCEPT !.last_state = snap.gcode_state]

\* lines 499-500
Remember(tr, snap) ==
    [tr EXCEPT !.last_state = snap.gcode_state,
               !.last_name = snap.subtask_name]

\* _track_print_job
TrackPrintJob(tr, metric, snap, snaps, db) ==
    Remember(
      EndJob(
        RecordTray(StartJob(tr, metric, snap, snaps, db), snap.tray_now),
        metric, snap, snaps, db),
      snap)

-----------------------------------------------------------------------------
(* bambu_collector.py: one collection cycle *)

\* --interval, the seconds between two cycles
Interval == 30

\* the cycle's counters and history when no snapshot was pulled (lines 568-575)
NoSnapshot ==
    /\ mqtt_connect_errors' = mqtt_connect_errors + 1
    /\ matched' = <<>>
    /\ outcome' = "no_snapshot"
    /\ UNCHANGED <<filaments, metrics, snapshots, jobs, usages,
                   current_print_job, last_gcode_state, last_subtask_name,
                   trays_used, error_count, success_count>>

\* a block whose writes to the Filament and FilamentSnapshot tables stay
\* when an exception leaves it
PartlyWritten(st) ==
    /\ error_count' = error_count + 1
    /\ matched' = st.log
    /\ outcome' = "error"
    /\ filaments' = st.db
    /\ snapshots' = snapshots \o st.snaps
    /\ UNCHANGED <<metrics, jobs, usages,
                   current_print_job, last_gcode_state, last_subtask_name,
                   trays_used, success_count, mqtt_connect_errors>>

\* an exception left the atomic block: its writes are rolled back and the
\* handler of lines 645-649 counts the error
RolledBack(st) ==
    /\ error_count' = error_count + 1
    /\ matched' = st.log
    /\ outcome' = "error"
    /\ UNCHANGED <<filaments, metrics, snapshots, jobs, usages,
                   current_print_job, last_gcode_state, last_subtask_name,
                   trays_used, success_count, mqtt_connect_errors>>

\* a commit that keeps the slot snapshots of the latest cycle only
CommittedLatestOnly(st, tr, metric) ==
    /\ metrics' = Append(metrics, metric)
    /\ filaments' = st.db
    /\ snapshots' = st.snaps
    /\ jobs' = tr.jobs
    /\ usages' = tr.usages
    /\ current_print_job' = tr.job
    /\ trays_used' = tr.used
    /\ last_gcode_state' = tr.last_state
    /\ last_subtask_name' = tr.last_name
    /\ success_count' = success_count + 1
    /\ matched' = st.log
    /\ outcome' = "success"
    /\ UNCHANGED <<error_count, mqtt_connect_errors>>

\* the atomic block ran to its end: its writes are committed
Committed(st, tr, metric) ==
    /\ metrics' = Append(metrics, metric)
    /\ filaments' = st.db
    /\ snapshots' = snapshots \o st.snaps
    /\ jobs' = tr.jobs
    /\ usages' = tr.usages
    /\ current_print_job' = tr.job
    /\ trays_used' = tr.used
    /\ last_gcode_state' = tr.last_state
    /\ last_subtask_name' = tr.last_name
    /\ success_count' = success_count + 1
    /\ matched' = st.log
    /\ outcome' = "success"
    /\ UNCHANGED <<error_count, mqtt_connect_errors>>

\* PrinterMetrics.objects.create at timestamp t (lines 578-627)
NewMetric(snap, t) ==
    [id |-> Len(metrics) + 1, timestamp |-> t,
     gcode_state |-> snap.gcode_state, subtask_name |-> snap.subtask_name]

\* the tracker fields of the Command with the tables they write
Tracker ==
    [job |-> current_print_job, used |-> trays_used,
     last_state |-> last_gcode_state, last_name |-> last_subtask_name,
     jobs |-> jobs, usages |-> usages]

\* lines 577-635 once the slot snapshots st are done
AfterSnapshots(st, snap, t) ==
    IF st.failed THEN RolledBack(st)
    ELSE Committed(st,
                   TrackPrintJob(Tracker, NewMetric(snap, t), snap,
                                 snapshots \o st.snaps, st.db),
                   NewMetric(snap, t))

\* _collect_printer_data.  pulled is what get_snapshot() returned: None or
\* Some(snapshot).  The writes of the atomic block are committed together
\* or, when an exception leaves the block, not at all.
CollectPrinterData(pulled) ==
    /\ now' = now + Interval
    /\ observed' = pulled
    /\ IF pulled = None THEN NoSnapshot
       ELSE \E st \in (IF pulled[1].filaments # <<>>
                       THEN CreateFilamentSnapshots(
                              [db |-> filaments, snaps |-> <<>>,
                               log |-> <<>>, failed |-> FALSE],
                              Len(metrics) + 1, pulled[1].filaments, 1,
                              now + Interval)
                       ELSE {[db |-> filaments, snaps |-> <<>>,
                              log |-> <<>>, failed |-> FALSE]}) :
              AfterSnapshots(st, pulled[1], now + Interval)

\* {}: a dict without keys
EmptyDict == [key \in {} |-> NULL]

\* Command.__init__ with the Filament table as found at startup, and
\* PrinterStateAccumulator.__init__
InitWith(inventory) ==
    /\ filaments = inventory
    /\ metrics = <<>>
    /\ snapshots = <<>>
    /\ jobs = <<>>
    /\ usages = <<>>
    /\ current_print_job = None
    /\ last_gcode_state = NULL
    /\ last_subtask_name = NULL
    /\ trays_used = {}
    /\ error_count = 0
    /\ success_count = 0
    /\ mqtt_connect_errors = 0
    /\ now = 0
    /\ matched = <<>>
    /\ outcome = "init"
    /\ observed = None
    /\ state_data = EmptyDict
    /\ received = None
    /\ merging = None
    /\ deltas = <<>>
    /\ cleanup = None
    /\ exit_status = "running"

\* one iteration of _run_continuous_loop: a cycle that runs to its end, with
\* no message merged meanwhile
Cycle(pulled) ==
    /\ exit_status = "running"
    /\ CollectPrinterData(pulled)
    /\ UNCHANGED <<state_data, received, merging, deltas, cleanup, exit_status>>

-----------------------------------------------------------------------------
(* The values the projector puts in a snapshot (PrinterState.get_snapshot) *)

Green == <<"0", "0", "F", "F", "0", "0", "F", "F">>
Red == <<"F", "F", "0", "0", "0", "0", "F", "F">>

\* one entry of snapshot['filaments']; the projector sets no 'tag_id' key.
\* A diameter is in hundredths of a millimetre; 175 is the 1.75 of a tray
\* that reports none.
TrayData(tray_id, tray_uuid, tag_uid, type, sub_type, color, remain, weight) ==
    [tray_id |-> tray_id, tray_uuid |-> tray_uuid, tag_uid |-> tag_uid,
     tag_id |-> NULL, type |-> type, sub_type |-> sub_type, color |-> color,
     remain_percent |-> remain, tray_weight |-> weight, tray_diameter |-> 175]

Snapshot(gcode_state, subtask_name, print_percent, tray_now, filaments_data) ==
    [gcode_state |-> gcode_state, subtask_name |-> subtask_name,
     print_percent |-> print_percent, tray_now |-> tray_now,
     filaments |-> filaments_data]

-----------------------------------------------------------------------------
(* Specification Spec: the inventory over several cycles, from an empty     *)
(* Filament table; each cycle observes slot 0, slot 1 or both.              *)

MaxCycles == 3

\* what the loader can report for a slot: spools with an RFID tag (a
\* tray_uuid and a tag_uid) and spools without one, of a registered and of
\* an unregistered color
SlotReadings(tray_id) ==
    { TrayData(tray_id, "U1", "T1", "PLA", "PLA Basic", Green, 80, 1000),
      TrayData(tray_id, "U2", "T2", "PLA", "PLA Basic", Green, 30, 1000),
      TrayData(tray_id, "", "", "PLA", "PLA Basic", Red, 50, 0),
      TrayData(tray_id, "", "", "PETG", "", Green, 50, 0) }

FilamentLists ==
    {<<>>}
      \cup {<<a>> : a \in SlotReadings(0)}
      \cup {<<b>> : b \in SlotReadings(1)}
      \cup {<<a, b>> : a \in SlotReadings(0), b \in SlotReadings(1)}

Snapshots ==
    {Snapshot("IDLE", "", 0, "255", fl) : fl \in FilamentLists}

Init == InitWith(<<>>)

Next ==
    \E snap \in Snapshots :
        /\ now < MaxCycles * Interval
        /\ Cycle(Some(snap))

Spec == Init /\ [][Next]_vars

-----------------------------------------------------------------------------
(* Specification SpecMatch: one cycle with one slot observation, from every *)
(* Filament table of up to MaxInitSpools spools entered before the run.     *)
(* The observations carry a tag_id as well, the key the matcher reads at    *)
(* lines 266 and 285-290.                                                   *)

MaxInitSpools == 2

\* a spool of the inventory before the run: a PLA Basic spool of color name
\* Green's code, 1000 g, known by one identity key or by none, loaded in
\* slot 1 or not loaded
Spool(id, key, remain, loaded, last_used) ==
    update_remaining_weight(
      [id |-> id,
       tray_uuid |-> IF key = "U1" THEN "U1" ELSE NULL,
       tag_uid |-> IF key = "T1" THEN "T1" ELSE NULL,
       tag_id |-> IF key = "L1" THEN "L1" ELSE NULL,
       type |-> "PLA",
       sub_type |-> "PLA Basic",
       color |-> Green,
       color_hex |-> None,
       diameter |-> 175,
       initial_weight_grams |-> Some(1000),
       remaining_percent |-> remain,
       remaining_weight_grams |-> None,
       created_by |-> "Manual",
       is_loaded_in_ams |-> loaded,
       current_tray_id |-> IF loaded THEN PyInt(1) ELSE None,
       last_loaded_date |-> IF loaded THEN Some(0 - 60) ELSE None,
       last_used |-> last_used])

\* the tables the database accepts: tray_uuid is unique where it is not
\* NULL; tag_uid and tag_id carry no constraint, nor does the loaded slot
ValidInventory(inv) ==
    \A i, j \in DOMAIN inv :
        i # j => (inv[i].tray_uuid = NULL \/ inv[i].tray_uuid # inv[j].tray_uuid)

RECURSIVE InventoriesOfLen(_)
InventoriesOfLen(n) ==
    IF n = 0 THEN {<<>>}
    ELSE {inv \in {Append(shorter, Spool(n, key, wear[1], loaded, wear[2])) :
                      shorter \in InventoriesOfLen(n - 1),
                      key \in {"none", "U1", "T1", "L1"},
                      loaded \in BOOLEAN,
                      wear \in {<<30, None>>, <<30, Some(0 - 30)>>, <<80, None>>}} :
            ValidInventory(inv)}

Inventories == UNION {InventoriesOfLen(n) : n \in 0 .. MaxInitSpools}

MatchReadings ==
    {[TrayData(0, tray_uuid, tag_uid, "PLA", material[1], material[2], 50, 1000)
        EXCEPT !.tag_id = tag_id] :
        tray_uuid \in {"", "U1"}, tag_uid \in {"", "T1"}, tag_id \in {NULL, "L1"},
        material \in {<<"", Green>>, <<"PLA Basic", Green>>,
                      <<"PLA Matte", Green>>, <<"PLA Basic", Red>>}}

InitMatch == \E inv \in Inventories : InitWith(inv)

NextMatch ==
    \E reading \in MatchReadings :
        /\ outcome = "init"
        /\ Cycle(Some(Snapshot("IDLE", "", 0, "255", <<reading>>)))

SpecMatch == InitMatch /\ [][NextMatch]_vars

-----------------------------------------------------------------------------
(* Specification SpecJob: the job tracker over MaxJobCycles cycles; every   *)
(* cycle reads the same tagged spool in slot 0, the active slot.            *)

MaxJobCycles == 4

JobSnapshots ==
    {Snapshot(gcode_state, subtask_name, 50, "0",
              <<TrayData(0, "U1", "T1", "PLA", "PLA Basic", Green, 80, 1000)>>) :
        gcode_state \in {"", "IDLE", "RUNNING", "FINISH", "FAILED"},
        subtask_name \in {"", "A", "B"}}

NextJob ==
    \E snap \in JobSnapshots :
        /\ now < MaxJobCycles * Interval
        /\ Cycle(Some(snap))

SpecJob == Init /\ [][NextJob]_vars

-----------------------------------------------------------------------------
(* Specification SpecUsage: the consumption accounting of a job "A" over    *)
(* two slots whose remaining percent changes between cycles.                *)

MaxUsageCycles == 3

UsageSnapshots ==
    {Snapshot(gcode_state, "A", 50, tray_now, slot0 \o slot1) :
        gcode_state \in {"RUNNING", "FINISH"},
        tray_now \in {"0", "1"},
        slot0 \in {<<TrayData(0, "U1", "T1", "PLA", "PLA Basic", Green, remain, 1000)>> :
                     remain \in {80, 60, 0}},
        slot1 \in {<<>>, <<TrayData(1, "U2", "T2", "PLA", "PLA Basic", Green, 50, 750)>>}}

NextUsage ==
    \E snap \in UsageSnapshots :
        /\ now < MaxUsageCycles * Interval
        /\ Cycle(Some(snap))

SpecUsage == Init /\ [][NextUsage]_vars

-----------------------------------------------------------------------------
(* Vocabulary of the properties *)

TerminalStates == {"FINISH", "FAILED"}
NotPrinting == {"FINISH", "IDLE", "FAILED", NULL, ""}

LoadedAt(f, slot) == f.is_loaded_in_ams /\ f.current_tray_id = PyInt(slot)

\* the record written by the cycle that has just run (after a step that
\* appended one)
LastMetric == metrics[Len(metrics)]

OpenJobs == {j \in DOMAIN jobs : jobs[j].end_time = None}

\* spool i of table db has the type, the color and, when the observation
\* names one, the sub-type of observation td
SameMaterial(db, i, td) ==
    /\ db[i].type = td.type
    /\ db[i].color = td.color
    /\ (td.sub_type # "" /\ td.sub_type # NULL) => db[i].sub_type = td.sub_type

HasKey(db, td, key) ==
    /\ td[key] # "" /\ td[key] # NULL
    /\ \E i \in DOMAIN db : db[i][key] = td[key]

\* the step of the resolution order that must answer for td on table db
ExpectedMethod(db, td) ==
    IF HasKey(db, td, "tray_uuid") THEN "tray_uuid"
    ELSE IF HasKey(db, td, "tag_uid") THEN "tag_uid"
    ELSE IF HasKey(db, td, "tag_id") THEN "tag_id"
    ELSE IF \E i \in DOMAIN db : SameMaterial(db, i, td) THEN "type_sub_type_color"
    ELSE "auto_created"

-----------------------------------------------------------------------------
(* C1 *)

\* C1 (Spec): after any sequence of cycles no two spools are marked loaded
\* with the same slot index; and when an observation of slot s resolved to
\* spool X while spool Y was marked loaded at s, then after the cycle Y is not
\* loaded at s and X is (X taken from the last observation of the cycle that
\* resolved to it).
C1_LoadedSlotExclusivity ==
    /\ \A i, j \in DOMAIN filaments :
          (i # j /\ filaments[i].is_loaded_in_ams /\ filaments[j].is_loaded_in_ams)
              => filaments[i].current_tray_id # filaments[j].current_tray_id
    /\ outcome = "success" =>
          \A k \in DOMAIN matched :
              LET x == matched[k].filament[1]
                  s == matched[k].tray_data.tray_id
              IN  (\A l \in DOMAIN matched : l > k => matched[l].filament[1] # x)
                    => /\ LoadedAt(filaments[x], s)
                       /\ \A y \in DOMAIN matched[k].before :
                             (y # x /\ LoadedAt(matched[k].before[y], s))
                                => ~LoadedAt(filaments[y], s)

-----------------------------------------------------------------------------
(* C2 - C6: the job tracker, under SpecJob *)

\* the history is: records 1..i-1 with another subtask name than name, record
\* i the first with name and in a printing state, records i+1..n-1 with name
\* and no terminal state, record n with name and a terminal state
LifecycleOf(name, i) ==
    /\ i \in 1 .. Len(metrics) - 1
    /\ \A k \in 1 .. i - 1 : metrics[k].subtask_name # name
    /\ metrics[i].gcode_state \notin NotPrinting
    /\ \A k \in i .. Len(metrics) : metrics[k].subtask_name = name
    /\ \A k \in i + 1 .. Len(metrics) - 1 : metrics[k].gcode_state \notin TerminalStates
    /\ LastMetric.gcode_state \in TerminalStates

\* C2 (SpecJob): when subtask A is first reported in a printing state, keeps
\* being reported and then a terminal state is reported, exactly one PrintJob
\* named A exists, started at the first printing record and ended at the
\* terminal record.
C2_JobLifecycle ==
    \A name \in {"A", "B"} : \A i \in DOMAIN metrics :
        LifecycleOf(name, i) =>
            /\ Cardinality({j \in DOMAIN jobs : jobs[j].project_name = name}) = 1
            /\ \A j \in DOMAIN jobs :
                  jobs[j].project_name = name =>
                      /\ jobs[j].start_time = metrics[i].timestamp
                      /\ jobs[j].start_metric = Some(i)
                      /\ jobs[j].end_time = Some(LastMetric.timestamp)
                      /\ jobs[j].end_metric = Some(Len(metrics))

\* [idle, printing A, printing A, finished] has produced the one job A
C2_Witness ==
    /\ Len(metrics) = 4
    /\ [k \in 1 .. 4 |-> <<metrics[k].gcode_state, metrics[k].subtask_name>>]
          = << <<"IDLE", "">>, <<"RUNNING", "A">>, <<"RUNNING", "A">>, <<"FINISH", "A">> >>
    /\ Len(jobs) = 1
    /\ jobs[1].start_metric = Some(2) /\ jobs[1].end_metric = Some(4)

\* the cycle that has just run reported a printing state and a new name
StartReported ==
    /\ Len(metrics') = Len(metrics) + 1
    /\ metrics'[Len(metrics')].gcode_state \notin NotPrinting
    /\ metrics'[Len(metrics')].subtask_name # ""
    /\ metrics'[Len(metrics')].subtask_name # last_subtask_name

\* C3 (SpecJob): a cycle that reports a printing state with a new non-empty
\* name while a job is open closes that job with this cycle's record and
\* opens the new job, which is then the only open job.
C3_JobReentrancy ==
    [][ (StartReported /\ current_print_job # None) =>
          LET a == current_print_job[1].id
              b == Len(jobs')
              rec == metrics'[Len(metrics')]
          IN  /\ b = Len(jobs) + 1
              /\ jobs'[a].end_time = Some(rec.timestamp)
              /\ jobs'[a].end_metric = Some(rec.id)
              /\ jobs'[b].project_name = rec.subtask_name
              /\ jobs'[b].start_metric = Some(rec.id)
              /\ \A j \in DOMAIN jobs' : jobs'[j].end_time = None <=> j = b
              /\ current_print_job' = Some(jobs'[b]) ]_vars

\* job 1 was closed, still printing, by the record that opened job 2
C3_Witness ==
    /\ Len(jobs) = 2
    /\ jobs[1].end_metric = jobs[2].start_metric
    /\ jobs[1].final_status \notin TerminalStates
    /\ jobs[2].end_time = None
    /\ current_print_job = Some(jobs[2])

C5_FinalizeOnce ==
    [][ /\ \A j \in DOMAIN jobs : jobs[j].end_time # None => jobs'[j] = jobs[j]
        /\ ( /\ Len(metrics') = Len(metrics) + 1
             /\ last_gcode_state \in TerminalStates
             /\ metrics'[Len(metrics')].gcode_state \in TerminalStates )
           => (jobs' = jobs /\ usages' = usages) ]_vars

\* FINISH then FAILED: the job was finalized by the first, with its
\* consumption record, and stands as it was
C5_Witness ==
    /\ Len(metrics) >= 3
    /\ metrics[Len(metrics) - 1].gcode_state = "FINISH"
    /\ LastMetric.gcode_state = "FAILED"
    /\ \E j \in DOMAIN jobs :
          /\ jobs[j].end_metric = Some(Len(metrics) - 1)
          /\ jobs[j].final_status = "FINISH"
          /\ \E u \in DOMAIN usages : usages[u].print_job = j

\* C6 (SpecJob): a cycle creates a PrintJob exactly when it reports a state
\* other than FINISH, IDLE, FAILED, null and empty with a non-empty subtask
\* name that differs from the name the preceding cycle recorded; the
\* recorded name is overwritten by every cycle.
C6_JobStartCondition ==
    [][ Len(metrics') = Len(metrics) + 1 =>
          /\ Len(jobs') = (IF StartReported THEN Len(jobs) + 1 ELSE Len(jobs))
          /\ last_subtask_name' = metrics'[Len(metrics')].subtask_name ]_vars

\* printing A, idle A, printing A: the name never changed, one job
C6_Witness ==
    /\ Len(metrics) = 3
    /\ [k \in 1 .. 3 |-> <<metrics[k].gcode_state, metrics[k].subtask_name>>]
          = << <<"RUNNING", "A">>, <<"IDLE", "A">>, <<"RUNNING", "A">> >>
    /\ Len(jobs) = 1

-----------------------------------------------------------------------------
(* C7: the consumption accounting, under SpecUsage *)

\* weight * percent / 100 as an integer
GramsOf(weight, percent) ==
    IF percent >= 0 THEN (weight * percent) \div 100
    ELSE 0 - ((weight * (0 - percent)) \div 100)

\* the slot the pulled snapshot names as active, as a set
ActiveSlot ==
    IF observed' = None THEN {}
    ELSE {s \in 0 .. 15 : TrayNowInt(observed'[1].tray_now) = Some(s)}

\* the used-slot set of the job the step finalizes
UsedSlots == IF StartReported THEN trays_used ELSE trays_used \cup ActiveSlot

\* the step has created the ConsumptionRecord of job j and slot s for spool f
\* with the start percent p0 and the end percent p1
Accounted(j, s, f, p0, p1) ==
    \E u \in DOMAIN usages' :
        /\ u > Len(usages)
        /\ usages'[u].print_job = j
        /\ usages'[u].tray_id = s
        /\ usages'[u].filament = f
        /\ usages'[u].consumed_percent = Some(p0 - p1)
        /\ usages'[u].consumed_grams
             = Some(GramsOf(filaments'[f].initial_weight_grams[1], p0 - p1))
        /\ usages'[u].is_primary = (Cardinality(UsedSlots) = 1)

\* C7 (SpecUsage): when a cycle finalizes a job whose used-slot set contains
\* slot s, and the start metric's slot snapshot at s is resolved to spool F
\* with remaining percent p0 and the end metric has a slot snapshot for F at
\* s with remaining percent p1, the ConsumptionRecord of (job, s) has
\* consumed_percent = p0 - p1, consumed_grams = F.initial_weight * (p0 - p1)
\* / 100 as an integer, and is_primary iff exactly one slot was used.
C7_ConsumptionAccounting ==
    [][ \A j \in DOMAIN jobs :
          (jobs[j].end_time = None /\ jobs'[j].end_time # None) =>
            \A s \in UsedSlots : \A a, b \in DOMAIN snapshots' :
              ( /\ snapshots'[a].printer_metric = jobs[j].start_metric[1]
                /\ snapshots'[a].tray_id = s
                /\ snapshots'[a].filament # None
                /\ snapshots'[a].remain_percent # None
                /\ snapshots'[b].printer_metric = Len(metrics')
                /\ snapshots'[b].tray_id = s
                /\ snapshots'[b].filament = snapshots'[a].filament
                /\ snapshots'[b].remain_percent # None )
              => Accounted(j, s, snapshots'[a].filament[1],
                           snapshots'[a].remain_percent[1],
                           snapshots'[b].remain_percent[1]) ]_vars

-----------------------------------------------------------------------------
(* C8 - C9: the matcher, under SpecMatch *)

\* C8 (SpecMatch): for any inventory and any slot observation the matcher
\* answers with the first step that hits, in the order tray_uuid, tag_uid,
\* tag_id, type/sub-type/color heuristic, and the spool it returns is a hit
\* of that step.
C8_MatcherPriority ==
    \A k \in DOMAIN matched :
        LET m == matched[k]
        IN  ~m.raised =>
              /\ m.method = ExpectedMethod(m.before, m.tray_data)
              /\ m.method \in {"tray_uuid", "tag_uid", "tag_id"} =>
                    m.before[m.filament[1]][m.method] = m.tray_data[m.method]
              /\ m.method = "type_sub_type_color" =>
                    SameMaterial(m.before, m.filament[1], m.tray_data)

\* the observation has spool A's tray_uuid and the type and color of another
\* spool B: the result is A, by tray_uuid
C8_Witness ==
    \E k \in DOMAIN matched :
        /\ matched[k].method = "tray_uuid"
        /\ matched[k].before[matched[k].filament[1]].tray_uuid
             = matched[k].tray_data.tray_uuid
        /\ \E b \in DOMAIN matched[k].before :
              /\ Some(b) # matched[k].filament
              /\ SameMaterial(matched[k].before, b, matched[k].tray_data)

\* spool c was used strictly less recently than spool r
LessRecentlyUsed(c, r) ==
    \/ c.last_used = None /\ r.last_used # None
    \/ c.last_used # None /\ r.last_used # None /\ c.last_used[1] < r.last_used[1]

\* the spools of table db the heuristic step chooses from for td
HeuristicPool(db, td) ==
    IF \E i \in DOMAIN db : SameMaterial(db, i, td) /\ ~db[i].is_loaded_in_ams
    THEN {i \in DOMAIN db : SameMaterial(db, i, td) /\ ~db[i].is_loaded_in_ams}
    ELSE {i \in DOMAIN db : SameMaterial(db, i, td)}

\* C9 (SpecMatch): a heuristic result is, among the spools of the observed
\* type, color and (if present) sub-type that are not loaded, one with the
\* lowest remaining percent, and among those a least recently used one;
\* loaded spools are considered, in the same order, only when no unloaded
\* spool matches.
C9_HeuristicPreference ==
    \A k \in DOMAIN matched :
        matched[k].method = "type_sub_type_color" =>
            LET db == matched[k].before
                r == matched[k].filament[1]
            IN  /\ r \in HeuristicPool(db, matched[k].tray_data)
                /\ \A c \in HeuristicPool(db, matched[k].tray_data) :
                      /\ db[r].remaining_percent <= db[c].remaining_percent
                      /\ db[r].remaining_percent = db[c].remaining_percent
                            => ~LessRecentlyUsed(db[c], db[r])

\* two unloaded candidates with 80 and 30 percent: the result is the 30 one
C9_Witness ==
    \E k \in DOMAIN matched :
        /\ matched[k].method = "type_sub_type_color"
        /\ matched[k].before[matched[k].filament[1]].remaining_percent = 30
        /\ \E c \in HeuristicPool(matched[k].before, matched[k].tray_data) :
              /\ ~matched[k].before[c].is_loaded_in_ams
              /\ matched[k].before[c].remaining_percent = 80

-----------------------------------------------------------------------------
(* C10 *)

\* C10 (Spec): the matcher never fails and never returns a null spool, and
\* for an observation that matches no existing spool at the identity and
\* heuristic steps it creates exactly one new spool and returns it with
\* method 'auto_created'.
C10_AutoCreateFallback ==
    \A k \in DOMAIN matched :
        /\ ~matched[k].raised
        /\ matched[k].filament # None
        /\ ExpectedMethod(matched[k].before, matched[k].tray_data) = "auto_created"
              => /\ matched[k].method = "auto_created"
                 /\ matched[k].filament = Some(Len(matched[k].before) + 1)
                 /\ Len(filaments) >= Len(matched[k].before) + 1

-----------------------------------------------------------------------------
(* Specification SpecSync: the remaining percent of one tagged spool of the *)
(* inventory, read in slot 0 cycle after cycle.                             *)

MaxSyncCycles == 3

\* the inventory before the run: one spool known by its tray_uuid, at 50
\* percent of 750 g or of 1000 g
SyncInventories ==
    {<<update_remaining_weight(
         [Spool(1, "U1", 50, loaded, None)
            EXCEPT !.initial_weight_grams = Some(weight)])>> :
        weight \in {750, 1000}, loaded \in BOOLEAN}

SyncSnapshots ==
    {Snapshot("IDLE", "", 0, "255",
              <<TrayData(0, "U1", "T1", "PLA", "PLA Basic", Green, remain, 1000)>>) :
        remain \in {50, 58, 60, 100}}

InitSync == \E inv \in SyncInventories : InitWith(inv)

NextSync ==
    \E snap \in SyncSnapshots :
        /\ now < MaxSyncCycles * Interval
        /\ Cycle(Some(snap))

SpecSync == InitSync /\ [][NextSync]_vars

-----------------------------------------------------------------------------
(* C11 *)

\* C11 (SpecSync): after a cycle in which a slot observation with remaining
\* percent p resolved to an existing spool S, S's stored remaining percent
\* is p and, when S has an initial weight, its remaining weight is the
\* integer part of initial_weight * p / 100; when p was already the stored
\* percent, the percent, the remaining weight and the last-used time are
\* as they were.
C11_RemainingPercentSync ==
    outcome = "success" =>
        \A k \in DOMAIN matched :
            (/\ matched[k].method # "auto_created"
             /\ \A l \in DOMAIN matched : l > k => matched[l].filament # matched[k].filament)
            => LET old == matched[k].before[matched[k].filament[1]]
                   new == filaments[matched[k].filament[1]]
                   p == matched[k].tray_data.remain_percent
               IN  /\ new.remaining_percent = p
                   /\ new.initial_weight_grams # None =>
                         new.remaining_weight_grams
                            = Some(GramsOf(new.initial_weight_grams[1], p))
                   /\ p = old.remaining_percent =>
                         /\ new.remaining_weight_grams = old.remaining_weight_grams
                         /\ new.last_used = old.last_used

-----------------------------------------------------------------------------
(* bambu_collector.py: a cycle that an exception leaves before its end *)

\* a handler that catches nothing
CaughtNothing(exc) == FALSE

\* except Exception (line 645): the exceptions the cycle's handler catches;
\* KeyboardInterrupt is not one of them
Caught(exc) == exc = "Exception"

\* lines 514-518 of _finalize_print_job: the in-memory PrintJob once its end
\* fields are assigned, before save()
MarkEnded(tr, metric, snap) ==
    [tr EXCEPT !.job = Some(calculate_duration(
                          [tr.job[1] EXCEPT !.end_time = Some(metric.timestamp),
                                            !.end_metric = Some(metric.id),
                                            !.final_status = snap.gcode_state,
                                            !.completion_percent = snap.print_percent]))]

\* _track_print_job left by an exception at one of its writes (the save() or
\* a FilamentUsage write of _finalize_print_job, PrintJob.objects.create): the
\* tracker fields as the exception finds them.  A cycle that neither starts
\* nor ends a job writes nothing here.
InterruptedTracking(tr, metric, snap) ==
    IF IsPrintStarting(snap.gcode_state, snap.subtask_name, tr.last_name)
    THEN IF tr.job # None
         THEN {MarkEnded(tr, metric, snap), [tr EXCEPT !.job = None, !.used = {}]}
         ELSE {tr}
    ELSE IF IsPrintEnding(snap.gcode_state, tr.last_state) /\ tr.job # None
         THEN {MarkEnded(RecordTray(tr, snap.tray_now), metric, snap)}
         ELSE {}

\* exception exc leaves the atomic block (lines 577-635) with the slot work
\* st done and the tracker fields tr: the block's writes are rolled back,
\* the fields of the Command stay as assigned, and the handler of lines
\* 645-649 counts the exception if it catches it
Raised(st, tr, exc) ==
    /\ error_count' = (IF Caught(exc) THEN error_count + 1 ELSE error_count)
    /\ outcome' = (IF exc = "KeyboardInterrupt" THEN "interrupted" ELSE "error")
    /\ matched' = st.log
    /\ current_print_job' = tr.job
    /\ trays_used' = tr.used
    /\ UNCHANGED <<filaments, metrics, snapshots, jobs, usages,
                   last_gcode_state, last_subtask_name,
                   success_count, mqtt_connect_errors>>

Abort(st, tr, exc) ==
    IF Caught(exc) /\ tr = Tracker THEN RolledBack(st) ELSE Raised(st, tr, exc)

\* exception exc is raised by the COMMIT with which the atomic block ends,
\* after the slot work st, the tracker call that left the fields tr and the
\* success_count += 1 of line 635: the writes are rolled back, the fields
\* of the Command and the counter stay as assigned
CommitFailed(st, tr, exc) ==
    /\ success_count' = success_count + 1
    /\ error_count' = (IF Caught(exc) THEN error_count + 1 ELSE error_count)
    /\ outcome' = (IF exc = "KeyboardInterrupt" THEN "interrupted" ELSE "error")
    /\ matched' = st.log
    /\ current_print_job' = tr.job
    /\ trays_used' = tr.used
    /\ last_gcode_state' = tr.last_state
    /\ last_subtask_name' = tr.last_name
    /\ UNCHANGED <<filaments, metrics, snapshots, jobs, usages,
                   mqtt_connect_errors>>

\* the slot work of a cycle before its first observation
NoSlotWork == [db |-> filaments, snaps |-> <<>>, log |-> <<>>, failed |-> FALSE]

\* _collect_printer_data when exception exc is raised at stage at: in
\* get_snapshot() ("pull"), in PrinterMetrics.objects.create ("metric"), in
\* the FilamentSnapshot.objects.create of an observation ("snapshot"), at
\* a write of _track_print_job ("track"), or at the end of the atomic block
\* ("commit")
FaultyCollect(snap, at, exc) ==
    /\ now' = now + Interval
    /\ observed' = (IF at = "pull" THEN None ELSE Some(snap))
    /\ CASE at \in {"pull", "metric"} -> Abort(NoSlotWork, Tracker, exc)
         [] at = "snapshot" ->
              \E k \in 1 .. Len(snap.filaments) :
                \E st \in CreateFilamentSnapshots(
                            NoSlotWork, Len(metrics) + 1,
                            SubSeq(snap.filaments, 1, k), 1, now + Interval) :
                    Abort(st, Tracker, exc)
         [] at = "track" ->
              \E st \in CreateFilamentSnapshots(
                          NoSlotWork, Len(metrics) + 1, snap.filaments, 1,
                          now + Interval) :
                /\ ~st.failed
                /\ \E tr \in InterruptedTracking(
                               Tracker, NewMetric(snap, now + Interval), snap) :
                      Abort(st, tr, exc)
         [] at = "commit" ->
              \E st \in CreateFilamentSnapshots(
                          NoSlotWork, Len(metrics) + 1, snap.filaments, 1,
                          now + Interval) :
                /\ ~st.failed
                /\ CommitFailed(st,
                                TrackPrintJob(Tracker,
                                              NewMetric(snap, now + Interval),
                                              snap, snapshots \o st.snaps, st.db),
                                exc)

\* lines 112-123 of Command.handle: where an exception that the cycle has
\* not caught ends the command
Handled(exc) ==
    IF Caught(exc) THEN "running"
    ELSE IF exc = "KeyboardInterrupt" THEN "interrupted"
    ELSE "failed"

\* an iteration of _run_continuous_loop whose cycle raises: a caught
\* exception lets the loop go on, another one ends Command.handle
FaultyCycle(snap, at, exc) ==
    /\ exit_status = "running"
    /\ FaultyCollect(snap, at, exc)
    /\ exit_status' = Handled(exc)
    /\ UNCHANGED <<state_data, received, merging, deltas, cleanup>>

\* KeyboardInterrupt during time.sleep (line 252), between two cycles
InterruptedSleep ==
    /\ exit_status = "running"
    /\ exit_status' = "interrupted"
    /\ UNCHANGED <<filaments, metrics, snapshots, jobs, usages,
                   current_print_job, last_gcode_state, last_subtask_name,
                   trays_used, error_count, success_count, mqtt_connect_errors,
                   now, matched, outcome, observed, state_data, received,
                   merging, deltas, cleanup>>

-----------------------------------------------------------------------------
(* Specification SpecFault: the continuous loop over MaxFaultCycles cycles  *)
(* of a job "A" or "B" with one tagged spool in slot 0, where any cycle can *)
(* raise an exception or be interrupted from the keyboard.                  *)

MaxFaultCycles == 3

FaultSnapshots ==
    {Snapshot(gcode_state, subtask_name, 50, "0",
              <<TrayData(0, "U1", "T1", "PLA", "PLA Basic", Green, 80, 1000)>>) :
        gcode_state \in {"RUNNING", "FINISH"}, subtask_name \in {"A", "B"}}

NextFault ==
    \/ \E snap \in FaultSnapshots :
          /\ now < MaxFaultCycles * Interval
          /\ Cycle(Some(snap))
    \/ \E snap \in FaultSnapshots :
          \E at \in {"pull", "metric", "snapshot", "track"} :
            \E exc \in {"Exception", "KeyboardInterrupt"} :
              /\ now < MaxFaultCycles * Interval
              /\ FaultyCycle(snap, at, exc)
    \/ InterruptedSleep

SpecFault == Init /\ [][NextFault]_vars

-----------------------------------------------------------------------------
(* C12 - C13 *)

Store == <<filaments, metrics, snapshots, jobs, usages>>

\* C12 (SpecFault): a cycle in which a write fails leaves the persistent
\* store as it was before the cycle: no PrinterMetrics, FilamentSnapshot,
\* Filament, PrintJob or FilamentUsage row of that cycle remains.
C12_AtomicCycle ==
    [][ (now' # now /\ outcome' = "error") => Store' = Store ]_vars

\* a cycle had created a spool for its observation when its write failed,
\* and the spool is not in the table
C12_Witness ==
    /\ outcome = "error"
    /\ \E k \in DOMAIN matched :
          /\ matched[k].method = "auto_created"
          /\ ~matched[k].raised
          /\ matched[k].filament[1] > Len(filaments)

\* C13 (SpecFault): an exception raised in a cycle, by the pull or by a
\* write, does not leave the cycle: the error counter goes up by one, the
\* loop keeps running, so that the next cycle follows.
C13_FaultContainment ==
    [][ (now' # now /\ outcome' = "error") =>
          /\ error_count' = error_count + 1
          /\ exit_status' = "running" ]_vars

\* a cycle succeeded after a cycle that raised
C13_Witness ==
    /\ outcome = "success"
    /\ error_count >= 1
    /\ exit_status = "running"
    /\ Len(metrics) >= 1

-----------------------------------------------------------------------------
(* mqtt_client.py: the accumulator of partial updates and the transport *)

\* JSON values: a leaf (string, number, null written NULL) or an object with
\* its members; a dict is the function from its keys to their values
Leaf(v) == [leaf |-> TRUE, val |-> v, kids |-> EmptyDict]
Dict(d) == [leaf |-> FALSE, val |-> NULL, kids |-> d]

\* a merge in which a null removes the key it names from base
RECURSIVE DeepMergeNullRemoves(_, _)
DeepMergeNullRemoves(base, update) ==
    [key \in (DOMAIN base \cup DOMAIN update)
               \ {k \in DOMAIN base \cap DOMAIN update : update[k] = Leaf(NULL)} |->
        IF key \notin DOMAIN update THEN base[key]
        ELSE IF key \in DOMAIN base /\ ~base[key].leaf /\ ~update[key].leaf
             THEN Dict(DeepMergeNullRemoves(base[key].kids, update[key].kids))
             ELSE update[key]]

\* PrinterStateAccumulator._deep_merge: base after the merge of update
RECURSIVE DeepMerge(_, _)
DeepMerge(base, update) ==
    [key \in DOMAIN base \cup DOMAIN update |->
        IF key \notin DOMAIN update THEN base[key]
        ELSE IF key \in DOMAIN base /\ ~base[key].leaf /\ ~update[key].leaf
             THEN Dict(DeepMerge(base[key].kids, update[key].kids))
             ELSE update[key]]

\* PrinterStateAccumulator.update on message data: _state_data["print"]
\* afterwards
Update(print_data, data) ==
    IF "print" \in DOMAIN data
    THEN DeepMerge(print_data, data["print"].kids)
    ELSE print_data

\* BambuPrinter._on_mqtt_message: an empty message is dropped, another one
\* is merged
OnMqttMessage(data) ==
    /\ exit_status = "running"
    /\ state_data' = (IF data = EmptyDict THEN state_data
                      ELSE Update(state_data, data))
    /\ received' = Some(data)
    /\ cleanup' = cleanup
    /\ UNCHANGED <<merging, deltas>>
    /\ UNCHANGED <<filaments, metrics, snapshots, jobs, usages,
                   current_print_job, last_gcode_state, last_subtask_name,
                   trays_used, error_count, success_count, mqtt_connect_errors,
                   now, matched, outcome, observed, exit_status>>

\* dict.get(key, default) of a key that holds a leaf when present
Get(d, key, default) == IF key \in DOMAIN d THEN d[key].val ELSE default

\* PrinterState.from_mqtt_data followed by PrinterState.get_snapshot, for
\* accumulated data without the keys "mc_percent" and "ams": the defaults
\* stand for the keys that were never received
GetStateSnapshot(print_data) ==
    Snapshot(Get(print_data, "gcode_state", ""),
             Get(print_data, "subtask_name", ""), 0, "", <<>>)

\* BambuPrinter.get_snapshot, as read by _collect_printer_data at line 566
PullSnapshot == Some(GetStateSnapshot(state_data))

-----------------------------------------------------------------------------
(* Specification SpecTransport: the collector polls the transport while     *)
(* messages with the state and the subtask name arrive, or before any has.  *)

MaxTransportCycles == 3

TransportMessages ==
    {EmptyDict, [key \in {"info"} |-> Dict(EmptyDict)]}
      \cup {[key \in {"print"} |-> Dict(d)] :
              d \in {[key \in {"gcode_state"} |-> Leaf(g)] : g \in {"IDLE", "RUNNING"}}
                \cup {[key \in {"gcode_state", "subtask_name"} |->
                         IF key = "gcode_state" THEN Leaf(g) ELSE Leaf("A")] :
                       g \in {"RUNNING", "FINISH"}}}

NextTransport ==
    \/ \E data \in TransportMessages : OnMqttMessage(data)
    \/ /\ now < MaxTransportCycles * Interval
       /\ Cycle(PullSnapshot)

SpecTransport == Init /\ [][NextTransport]_vars

-----------------------------------------------------------------------------
(* C14 *)

\* C14 (SpecTransport): a cycle that runs while the transport has received
\* no telemetry gets no snapshot: it adds one to the connection-warning
\* counter, writes no PrinterMetrics, FilamentSnapshot, Filament or job row
\* and does not add to the error counter.
C14_TransportUnavailable ==
    [][ (now' # now /\ state_data = EmptyDict) =>
          /\ mqtt_connect_errors' = mqtt_connect_errors + 1
          /\ Store' = Store
          /\ error_count' = error_count ]_vars

-----------------------------------------------------------------------------
(* Specification SpecOnce: the command in run-once mode, one cycle from an  *)
(* empty inventory or from one tagged spool.                                *)

\* lines 113-115 of Command.handle: the single cycle returns and the command
\* ends with "Single collection completed successfully"
RunOnce(pulled) ==
    /\ exit_status = "running"
    /\ CollectPrinterData(pulled)
    /\ exit_status' = "ok"
    /\ UNCHANGED <<state_data, received, merging, deltas, cleanup>>

\* the single cycle raises: an exception it catches lets it return as
\* before, another one reaches the handlers of lines 119-123
RunOnceFaulty(snap, at, exc) ==
    /\ exit_status = "running"
    /\ FaultyCollect(snap, at, exc)
    /\ exit_status' = (IF Caught(exc) THEN "ok" ELSE Handled(exc))
    /\ UNCHANGED <<state_data, received, merging, deltas, cleanup>>

InitOnce == \E inv \in {<<>>} \cup SyncInventories : InitWith(inv)

NextOnce ==
    \/ \E snap \in Snapshots \cup FaultSnapshots : RunOnce(Some(snap))
    \/ \E snap \in Snapshots \cup FaultSnapshots :
          \E at \in {"pull", "metric", "snapshot", "track"} :
            \E exc \in {"Exception", "KeyboardInterrupt"} :
              RunOnceFaulty(snap, at, exc)

SpecOnce == InitOnce /\ [][NextOnce]_vars

\* C15 (SpecOnce): in run-once mode the command reports failure if and only
\* if the single cycle raised a processing exception.
C15_RunOnceFailureSignal ==
    [][ (exit_status = "running" /\ exit_status' # "running") =>
          (exit_status' = "failed" <=> outcome' = "error") ]_vars

-----------------------------------------------------------------------------
(* C16 *)

\* C16 (SpecFault): when the keyboard interrupt arrives while a cycle is in
\* progress, the loop stops only after that cycle has completed: the cycle's
\* writes are committed and the cycle is counted in the statistics of the
\* shutdown.
C16_CooperativeShutdown ==
    [][ (exit_status' = "interrupted" /\ now' # now) =>
          \/ /\ success_count' = success_count + 1
             /\ Len(metrics') = Len(metrics) + 1
          \/ error_count' = error_count + 1
          \/ mqtt_connect_errors' = mqtt_connect_errors + 1 ]_vars

-----------------------------------------------------------------------------
(* Specification SpecMerge: the accumulator fed with every sequence of      *)
(* partial updates over the keys a and b, where a value is a leaf (1, 2 or  *)
(* null) or an object with the key x.                                       *)

LeafValues == {Leaf("1"), Leaf("2"), Leaf(NULL)}

\* the dicts with keys among keys and values among values
DictsOver(keys, values) == UNION {[S -> values] : S \in SUBSET keys}

MergeDeltas ==
    DictsOver({"a", "b"},
              LeafValues \cup {Dict(d) : d \in DictsOver({"x"}, LeafValues)})

MergeMessages == {[key \in {"print"} |-> Dict(d)] : d \in MergeDeltas}

NextMerge == \E data \in MergeMessages : OnMqttMessage(data)

SpecMerge == Init /\ [][NextMerge]_vars

-----------------------------------------------------------------------------
(* C17 - C19 *)

\* the key paths of dict d, to leaves and to objects
RECURSIVE Paths(_)
Paths(d) ==
    UNION {{<<key>>} \cup (IF d[key].leaf THEN {}
                           ELSE {<<key>> \o p : p \in Paths(d[key].kids)})
             : key \in DOMAIN d}

\* the value at key path p of dict d
RECURSIVE At(_, _)
At(d, p) == IF Len(p) = 1 THEN d[p[1]] ELSE At(d[p[1]].kids, Tail(p))

LeafPaths(d) == {p \in Paths(d) : At(d, p).leaf}

\* C17 (SpecMerge): with no reset, every leaf key path present in the
\* accumulated state after a merge is still present after every later
\* merge, also when an update carries a non-object value at a key that
\* holds an object.
C17_AccumulatorRetention ==
    [][ LeafPaths(state_data) \subseteq Paths(state_data') ]_vars

\* C18 (SpecMerge): after any sequence of partial updates each leaf key of
\* the merged state holds the last non-null value seen for that key (null
\* where only null was seen), and keys never seen are absent.
C18_AccumulatorMergeResult ==
    [][ received' # received =>
          LET delta == received'[1]["print"].kids
          IN  /\ Paths(state_data') \subseteq Paths(state_data) \cup Paths(delta)
              /\ \A p \in LeafPaths(state_data') :
                    IF p \in LeafPaths(delta) /\ At(delta, p).val # NULL
                    THEN At(state_data', p) = At(delta, p)
                    ELSE IF p \in LeafPaths(state_data)
                         THEN At(state_data', p) = At(state_data, p)
                         ELSE At(state_data', p).val = NULL ]_vars

\* C19 (SpecMerge): merging an object-valued delta a second time leaves the
\* accumulated state tree as the first merge made it.
C19_AccumulatorIdempotence ==
    received # None => Update(state_data, received[1]) = state_data

\* the delta merged last carried a nested object into a state that held a
\* leaf under another key, and the leaf is still there
C19_Witness ==
    /\ received # None
    /\ received[1]["print"].kids = [key \in {"a"} |-> Dict([k \in {"x"} |-> Leaf("2")])]
    /\ state_data = [key \in {"a", "b"} |->
                       IF key = "a" THEN Dict([k \in {"x"} |-> Leaf("2")])
                       ELSE Leaf("1")]

-----------------------------------------------------------------------------
(* The cleanup command (bambu_cleanup.py), run against the database the     *)
(* collector writes.  A deleted PrinterMetrics row leaves its id unused:    *)
(* its place in the table holds DeletedMetric.                              *)

\* timedelta(days=1) in seconds
Day == 86400

\* cutoff_date (line 43); today is timezone.now()
CutoffDate(today, days) == today - days * Day

DeletedMetric ==
    [id |-> 0, timestamp |-> 0, gcode_state |-> NULL, subtask_name |-> NULL]

MetricExists(metric_id) ==
    metric_id \in DOMAIN metrics /\ metrics[metric_id].id = metric_id

\* printer_metric__started_jobs__isnull=False
StartedJobs(metric_id) ==
    \E j \in DOMAIN jobs : jobs[j].start_metric = Some(metric_id)

\* printer_metric__ended_jobs__isnull=False
EndedJobs(metric_id) ==
    \E j \in DOMAIN jobs : jobs[j].end_metric = Some(metric_id)

\* a selection that keeps the snapshots of the metrics at which jobs started
OldSnapshotsButStarted(cutoff_date, keep_print_jobs) ==
    {k \in DOMAIN snapshots :
        /\ metrics[snapshots[k].printer_metric].timestamp < cutoff_date
        /\ keep_print_jobs => ~StartedJobs(snapshots[k].printer_metric)}

\* old_snapshots (lines 48-57): the positions of the selected rows
OldSnapshots(cutoff_date, keep_print_jobs) ==
    {k \in DOMAIN snapshots :
        /\ metrics[snapshots[k].printer_metric].timestamp < cutoff_date
        /\ keep_print_jobs => /\ ~StartedJobs(snapshots[k].printer_metric)
                              /\ ~EndedJobs(snapshots[k].printer_metric)}

\* table tbl without the rows at the positions ids
RECURSIVE DeleteRows(_, _)
DeleteRows(tbl, ids) ==
    IF tbl = <<>> THEN <<>>
    ELSE IF Len(tbl) \in ids
         THEN DeleteRows(SubSeq(tbl, 1, Len(tbl) - 1), ids)
         ELSE Append(DeleteRows(SubSeq(tbl, 1, Len(tbl) - 1), ids),
                     tbl[Len(tbl)])

\* orphaned_metrics (lines 123-126) when snaps is the snapshot table
OrphanedMetrics(cutoff_date, snaps) ==
    {i \in DOMAIN metrics :
        /\ MetricExists(i)
        /\ metrics[i].timestamp < cutoff_date
        /\ \A k \in DOMAIN snaps : snaps[k].printer_metric # i}

\* on_delete=SET_NULL of PrintJob.start_metric and PrintJob.end_metric
SetNull(ref, ids) == IF ref # None /\ ref[1] \in ids THEN None ELSE ref

\* orphaned_metrics.delete() (line 137)
DeleteMetrics(ids) ==
    /\ metrics' = [i \in DOMAIN metrics |->
                     IF i \in ids THEN DeletedMetric ELSE metrics[i]]
    /\ jobs' = [j \in DOMAIN jobs |->
                  [jobs[j] EXCEPT !.start_metric = SetNull(@, ids),
                                  !.end_metric = SetNull(@, ids)]]

\* the number of the cleanup run after the run recorded in cleanup
NextRun == IF cleanup = None THEN 1 ELSE cleanup[1].run + 1

\* a confirmation that accepts DELETE in any case
ConfirmedAnyCase(confirm) == confirm \in {"DELETE", "delete"}

\* confirm != "DELETE" (line 91), negated
Confirmed(confirm) == confirm = "DELETE"

\* str.lower() of an answer to the second prompt
Lower(answer) ==
    IF answer = "Y" THEN "y" ELSE IF answer = "N" THEN "n" ELSE answer

\* input(...).lower() == 'y' (line 136)
AnsweredYes(answer) == Lower(answer) = "y"

\* the snapshot deletion is reached: rows are selected, the run is not a dry
\* run and the operator has confirmed (lines 61-93)
Deleting(old, dry_run, confirm) ==
    old # {} /\ ~dry_run /\ Confirmed(confirm)

\* what the run leaves for the record: its options, the count it reported
\* (line 67), the answers to the prompts it made (NULL where it made none)
\* and the pass of the batch loop that raised (0 for none)
CleanupRun(cutoff_date, keep_print_jobs, dry_run, confirm, orphans, k) ==
    [cutoff_date |-> cutoff_date,
     keep_print_jobs |-> keep_print_jobs,
     dry_run |-> dry_run,
     reported |-> Cardinality(OldSnapshots(cutoff_date, keep_print_jobs)),
     confirm |-> IF OldSnapshots(cutoff_date, keep_print_jobs) # {} /\ ~dry_run
                 THEN confirm ELSE NULL,
     orphans |-> orphans,
     failed_batch |-> k,
     run |-> NextRun]

\* Command.handle of bambu_cleanup.  confirm: what the operator typed at
\* the first prompt; orphans: the answer to the prompt about orphaned
\* metrics.
Cleanup(today, days, dry_run, keep_print_jobs, confirm, orphans) ==
    /\ IF Deleting(OldSnapshots(CutoffDate(today, days), keep_print_jobs),
                   dry_run, confirm)
       THEN /\ snapshots' =
                 DeleteRows(snapshots,
                            OldSnapshots(CutoffDate(today, days), keep_print_jobs))
            /\ IF OrphanedMetrics(CutoffDate(today, days), snapshots') # {}
               THEN /\ cleanup' = Some(CleanupRun(CutoffDate(today, days),
                                                  keep_print_jobs, dry_run,
                                                  confirm, orphans, 0))
                    /\ IF AnsweredYes(orphans)
                       THEN DeleteMetrics(OrphanedMetrics(CutoffDate(today, days),
                                                          snapshots'))
                       ELSE UNCHANGED <<metrics, jobs>>
               ELSE /\ cleanup' = Some(CleanupRun(CutoffDate(today, days),
                                                  keep_print_jobs, dry_run,
                                                  confirm, NULL, 0))
                    /\ UNCHANGED <<metrics, jobs>>
       ELSE /\ cleanup' = Some(CleanupRun(CutoffDate(today, days),
                                          keep_print_jobs, dry_run,
                                          confirm, NULL, 0))
            /\ UNCHANGED <<snapshots, metrics, jobs>>
    /\ UNCHANGED <<filaments, usages, current_print_job, last_gcode_state,
                   last_subtask_name, trays_used, error_count, success_count,
                   mqtt_connect_errors, now, matched, outcome, observed,
                   state_data, received, merging, deltas, exit_status>>

\* the rows that one pass of the batch loop deletes; the code takes 1000
BatchSize == 2

\* the number of passes of the batch loop (lines 99-108) that delete rows
\* when old rows are selected
NumBatches(old) == (Cardinality(old) + BatchSize - 1) \div BatchSize

\* the snapshot table after an exception has left transaction.atomic()
\* (line 98) in pass k of the batch loop over the rows old
BatchesRolledBack(tbl, old, k) == tbl

\* Command.handle of bambu_cleanup, confirmed and not a dry run, when the
\* delete of pass k of the batch loop raises: the exception leaves the
\* atomic block and the command
FaultyCleanup(today, days, keep_print_jobs, k) ==
    /\ k \in 1..NumBatches(OldSnapshots(CutoffDate(today, days), keep_print_jobs))
    /\ cleanup' = Some(CleanupRun(CutoffDate(today, days), keep_print_jobs,
                                  FALSE, "DELETE", NULL, k))
    /\ snapshots' =
          BatchesRolledBack(snapshots,
                            OldSnapshots(CutoffDate(today, days), keep_print_jobs),
                            k)
    /\ UNCHANGED <<filaments, metrics, jobs, usages, current_print_job,
                   last_gcode_state, last_subtask_name, trays_used,
                   error_count, success_count, mqtt_connect_errors, now,
                   matched, outcome, observed, state_data, received,
                   merging, deltas, exit_status>>

-----------------------------------------------------------------------------
(* Specification SpecCleanup: collector cycles of a job "A" with one slot   *)
(* reading, and cleanup runs between them.  A cleanup reads the clock at    *)
(* the time of the last cycle or a second later, with --days 0 or 1; the   *)
(* delete of one pass of its batch loop may raise.  The                     *)
(* cycles that follow the deletion of the start metric of the job the       *)
(* collector holds are not explored.                                        *)

MaxCleanCycles == 3

MaxCleanups == 2

CleanSnapshots ==
    {Snapshot(gcode_state, "A", 50, "0",
              <<TrayData(0, "U1", "T1", "PLA", "PLA Basic", Green, 80, 1000)>>) :
        gcode_state \in {"RUNNING", "FINISH"}}

NextCleanup ==
    \/ \E snap \in CleanSnapshots :
          /\ now < MaxCleanCycles * Interval
          /\ current_print_job # None
               => MetricExists(current_print_job[1].start_metric[1])
          /\ Cycle(Some(snap))
    \/ \E today \in {now, now + 1}, days \in {0, 1},
          dry_run \in BOOLEAN, keep_print_jobs \in BOOLEAN,
          confirm \in {"DELETE", "delete"}, orphans \in {"y", "Y", "n"} :
          /\ NextRun <= MaxCleanups
          /\ Cleanup(today, days, dry_run, keep_print_jobs, confirm, orphans)
    \/ \E today \in {now, now + 1}, days \in {0, 1},
          keep_print_jobs \in BOOLEAN, k \in 1..MaxCleanCycles :
          /\ NextRun <= MaxCleanups
          /\ FaultyCleanup(today, days, keep_print_jobs, k)

SpecCleanup == Init /\ [][NextCleanup]_vars

-----------------------------------------------------------------------------
(* C20 *)

\* the number of rows of table tbl equal to row
Count(tbl, row) == Cardinality({k \in DOMAIN tbl : tbl[k] = row})

\* the cleanup run with options run must keep the snapshots of metric
\* metric_id
MustKeep(metric_id, run) ==
    \/ metrics[metric_id].timestamp >= run.cutoff_date
    \/ /\ run.keep_print_jobs
       /\ StartedJobs(metric_id) \/ EndedJobs(metric_id)

\* C20 (SpecCleanup): a cleanup run deletes no FilamentSnapshot whose
\* PrinterMetrics timestamp is at or after the cutoff and, with
\* --keep-print-jobs, none whose PrinterMetrics is the start metric or the
\* end metric of a PrintJob.
C20_CleanupSafety ==
    [][ cleanup' # cleanup =>
          \A k \in DOMAIN snapshots :
              MustKeep(snapshots[k].printer_metric, cleanup'[1])
                => Count(snapshots', snapshots[k]) >= Count(snapshots, snapshots[k])
      ]_vars

\* a cleanup with --keep-print-jobs has deleted the snapshot of a metric
\* older than the cutoff and has left the snapshot of another one, older
\* than the cutoff as well, at which a job started or ended
C20_Witness ==
    /\ cleanup # None
    /\ cleanup[1].keep_print_jobs
    /\ \E i \in DOMAIN metrics :
          /\ MetricExists(i)
          /\ metrics[i].timestamp < cleanup[1].cutoff_date
          /\ \A k \in DOMAIN snapshots : snapshots[k].printer_metric # i
    /\ \E k \in DOMAIN snapshots :
          /\ metrics[snapshots[k].printer_metric].timestamp < cleanup[1].cutoff_date
          /\ \/ StartedJobs(snapshots[k].printer_metric)
             \/ EndedJobs(snapshots[k].printer_metric)

-----------------------------------------------------------------------------
(* C21 *)

\* C21 (SpecCleanup): the cleanup deletes in batches of at most BatchSize
\* rows, each batch committed on its own: when the delete of batch k fails,
\* the rows of the batches before k stay deleted.
C21_CleanupBatching ==
    [][ (cleanup' # cleanup /\ cleanup'[1].failed_batch > 0) =>
          Len(snapshots')
            = Len(snapshots) - (cleanup'[1].failed_batch - 1) * BatchSize ]_vars

-----------------------------------------------------------------------------
(* C22 *)

\* C22 (SpecCleanup): a cleanup run deletes no row in dry-run mode, deletes
\* no FilamentSnapshot unless the operator typed exactly DELETE, deletes no
\* PrinterMetrics unless it has deleted snapshots and the operator answered
\* y to the second prompt, and has reported, before the first prompt, the
\* count of the rows it deletes.
C22_CleanupConfirmation ==
    [][ cleanup' # cleanup =>
          /\ cleanup'[1].dry_run
               => snapshots' = snapshots /\ metrics' = metrics /\ jobs' = jobs
          /\ snapshots' # snapshots
               => /\ cleanup'[1].confirm = "DELETE"
                  /\ Len(snapshots) - Len(snapshots') = cleanup'[1].reported
          /\ metrics' # metrics
               => /\ snapshots' # snapshots
                  /\ cleanup'[1].orphans \in {"y", "Y"} ]_vars

\* a run, confirmed by DELETE, has deleted the snapshots it had counted and,
\* on the answer Y, a metric they left without snapshots
C22_Witness ==
    /\ cleanup # None
    /\ cleanup[1].confirm = "DELETE"
    /\ cleanup[1].reported > 0
    /\ cleanup[1].orphans = "Y"
    /\ \E i \in DOMAIN metrics : metrics[i] = DeletedMetric

-----------------------------------------------------------------------------
(* C23 *)

\* table old is the beginning of table new, row by row
Extends(new, old) ==
    /\ Len(new) >= Len(old)
    /\ \A i \in DOMAIN old : new[i] = old[i]

\* C23 (SpecFault): no collection cycle, committed, rolled back or
\* interrupted, changes or deletes a PrinterMetrics or FilamentSnapshot row
\* of an earlier cycle, or deletes a spool: these tables only grow.
C23_HistoryImmutable ==
    [][ now' # now =>
          /\ Extends(metrics', metrics)
          /\ Extends(snapshots', snapshots)
          /\ Len(filaments') >= Len(filaments)
          /\ \A i \in DOMAIN filaments : filaments'[i].id = filaments[i].id ]_vars

\* three cycles have committed: the metrics and snapshots of all of them
\* are in the tables, next to the one spool they resolved to
C23_Witness ==
    /\ Len(metrics) = 3
    /\ Len(snapshots) = 3
    /\ \A k \in DOMAIN snapshots : snapshots[k].printer_metric = k
    /\ Len(filaments) = 1
    /\ outcome = "success"

-----------------------------------------------------------------------------
(* C24 *)

\* C24 (SpecJob): every finalized PrintJob has start_time <= end_time and a
\* duration that is the whole number of minutes in end_time - start_time,
\* hence not negative, also when it was finalized by the cycle that opened
\* the next job.
C24_JobTimeOrdering ==
    \A j \in DOMAIN jobs :
        jobs[j].end_time # None =>
            /\ jobs[j].start_time <= jobs[j].end_time[1]
            /\ jobs[j].duration_minutes # None
            /\ jobs[j].duration_minutes[1] >= 0
            /\ jobs[j].duration_minutes[1] * 60
                 <= jobs[j].end_time[1] - jobs[j].start_time
            /\ jobs[j].end_time[1] - jobs[j].start_time
                 < (jobs[j].duration_minutes[1] + 1) * 60

\* a job that ran for a minute and a half was finalized by the cycle that
\* opened its successor
C24_Witness ==
    \E j \in DOMAIN jobs :
        /\ j + 1 \in DOMAIN jobs
        /\ jobs[j].end_time = Some(jobs[j].start_time + 90)
        /\ jobs[j].duration_minutes = Some(1)
        /\ jobs[j + 1].start_metric = jobs[j].end_metric

-----------------------------------------------------------------------------
(* The projection of the loader units of a message to the slot observations *)
(* of a snapshot (mqtt_client.py).  A tray of a message is a record with    *)
(* the keys the device sent; a unit is the list of its trays.               *)

\* dict.get(key, default) of a message's tray
KeyOr(data, key, default) == IF key \in DOMAIN data THEN data[key] ELSE default

\* FilamentTray.from_dict and the dict get_snapshot makes of the tray:
\* tray_id is the id the unit reports for the tray, and a key the device
\* did not send takes the default of from_dict
FilamentTray(data) ==
    [TrayData(data.id, KeyOr(data, "tray_uuid", ""), KeyOr(data, "tag_uid", ""),
              KeyOr(data, "tray_type", ""), KeyOr(data, "tray_sub_brands", ""),
              KeyOr(data, "tray_color", <<>>), KeyOr(data, "remain", 0 - 1),
              KeyOr(data, "tray_weight", 0))
       EXCEPT !.tray_diameter = KeyOr(data, "tray_diameter", 175)]

\* get_snapshot, the inner loop: the trays of one unit that hold a material
RECURSIVE UnitFilaments(_)
UnitFilaments(trays) ==
    IF trays = <<>> THEN <<>>
    ELSE (IF Truthy(Head(trays).tray_type)
          THEN <<FilamentTray(Head(trays))>> ELSE <<>>)
           \o UnitFilaments(Tail(trays))

\* get_snapshot, the outer loop: snapshot["filaments"] of the units
RECURSIVE AmsFilaments(_)
AmsFilaments(units) ==
    IF units = <<>> THEN <<>>
    ELSE UnitFilaments(Head(units)) \o AmsFilaments(Tail(units))

-----------------------------------------------------------------------------
(* Specification SpecUnits: cycles on a printer with one loader unit or     *)
(* more, each with the trays 0 and 1, numbered within the unit as the       *)
(* printer reports them; a tray is empty or holds a spool with a tray_uuid  *)
(* of its own.                                                              *)

MaxUnits == 2

MaxUnitCycles == 2

\* the tray_uuid of the spool in tray id of unit u
UuidOf(u, id) == "U" \o ToString(2 * u + id)

\* what unit u can report
UnitReadings(u) ==
    {<<[id |-> 0, tray_type |-> type0, tray_uuid |-> UuidOf(u, 0),
        tray_sub_brands |-> "PLA Basic", tray_color |-> Green,
        remain |-> 80, tray_weight |-> 1000],
       [id |-> 1, tray_type |-> type1, tray_uuid |-> UuidOf(u, 1),
        tray_sub_brands |-> "PLA Basic", tray_color |-> Green,
        remain |-> 80, tray_weight |-> 1000]>> :
        type0 \in {"", "PLA"}, type1 \in {"", "PLA"}}

\* the unit lists of n units
RECURSIVE UnitLists(_)
UnitLists(n) ==
    IF n = 0 THEN {<<>>}
    ELSE {Append(units, unit) : units \in UnitLists(n - 1),
                                unit \in UnitReadings(n - 1)}

UnitSnapshots ==
    {Snapshot("IDLE", "", 0, "255", AmsFilaments(units)) :
        units \in UNION {UnitLists(n) : n \in 1..MaxUnits}}

NextUnits ==
    \E snap \in UnitSnapshots :
        /\ now < MaxUnitCycles * Interval
        /\ Cycle(Some(snap))

SpecUnits == Init /\ [][NextUnits]_vars

-----------------------------------------------------------------------------
(* C25 *)

\* C25 (SpecUnits): no two FilamentSnapshot rows of one PrinterMetrics row
\* have the same tray_id, whatever the number of loader units.
C25_UniqueSlotIndices ==
    \A k1, k2 \in DOMAIN snapshots :
        (k1 # k2 /\ snapshots[k1].printer_metric = snapshots[k2].printer_metric)
          => snapshots[k1].tray_id # snapshots[k2].tray_id

-----------------------------------------------------------------------------
(* Specification SpecUnused: jobs "A" and "B" on a printer that names slot  *)
(* 0 as active or no slot at all (tray_now 255).                            *)

MaxUnusedCycles == 3

UnusedSnapshots ==
    {Snapshot(gcode_state, subtask_name, 50, tray_now,
              <<TrayData(0, "U1", "T1", "PLA", "PLA Basic", Green, 80, 1000)>>) :
        gcode_state \in {"RUNNING", "FINISH"},
        subtask_name \in {"A", "B"},
        tray_now \in {"255", "0"}}

NextUnused ==
    \E snap \in UnusedSnapshots :
        /\ now < MaxUnusedCycles * Interval
        /\ Cycle(Some(snap))

SpecUnused == Init /\ [][NextUnused]_vars

-----------------------------------------------------------------------------
(* C26 *)

\* the cycle that has just run finalizes the job the tracker held: it
\* reported a new print, or a terminal state after a state that was none
FinalizeReported ==
    /\ Len(metrics') = Len(metrics) + 1
    /\ current_print_job # None
    /\ \/ StartReported
       \/ /\ metrics'[Len(metrics')].gcode_state \in TerminalStates
          /\ last_gcode_state \notin TerminalStates

\* C26 (SpecUnused): a cycle that finalizes a job whose used-slot set is
\* empty, or that has no start metric, sets the job's end time, end metric,
\* final status, completion percent and duration, and creates no
\* ConsumptionRecord for it.
C26_JobWithoutUsage ==
    [][ ( /\ FinalizeReported
          /\ UsedSlots = {} \/ current_print_job[1].start_metric = None )
        => /\ jobs'[current_print_job[1].id].end_time
                = Some(metrics'[Len(metrics')].timestamp)
           /\ jobs'[current_print_job[1].id].end_metric = Some(Len(metrics'))
           /\ jobs'[current_print_job[1].id].final_status
                = metrics'[Len(metrics')].gcode_state
           /\ jobs'[current_print_job[1].id].completion_percent
                = observed'[1].print_percent
           /\ jobs'[current_print_job[1].id].duration_minutes # None
           /\ \A u \in DOMAIN usages' :
                 u > Len(usages) => usages'[u].print_job # current_print_job[1].id
      ]_vars

\* job 1 ran with no active slot and was finalized by FINISH: it has its end
\* fields and no ConsumptionRecord, while slot 0 held a resolved spool
C26_Witness ==
    /\ Len(jobs) = 1
    /\ jobs[1].end_time # None
    /\ jobs[1].final_status = "FINISH"
    /\ jobs[1].duration_minutes = Some(1)
    /\ usages = <<>>
    /\ \A k \in DOMAIN snapshots : snapshots[k].filament # None

-----------------------------------------------------------------------------
(* Specification SpecColor: cycles that observe in slot 0 the spool U1 or   *)
(* U2 with a color code that is the beginning, of any length up to          *)
(* MaxColorLen, of one of three strings of hex digits in lower, upper and   *)
(* mixed case.  A spool created for the observation stores "#" and          *)
(* strip_color_padding(code) in color_hex.                                  *)

MaxColorLen == 9

MaxColorCycles == 2

ColorStrings ==
    { <<"f", "f", "6", "a", "1", "3", "f", "f", "0", "0">>,
      <<"F", "F", "6", "A", "1", "3", "F", "F", "0", "0">>,
      <<"0", "0", "0", "0", "0", "0", "F", "f", "a", "B">> }

ColorCodes == {SubSeq(c, 1, n) : c \in ColorStrings, n \in 0..MaxColorLen}

ColorSnapshots ==
    {Snapshot("IDLE", "", 0, "255",
              <<TrayData(0, tray_uuid, "", "PLA", "PLA Basic", color, 80, 1000)>>) :
        tray_uuid \in {"U1", "U2"}, color \in ColorCodes}

NextColor ==
    \E snap \in ColorSnapshots :
        /\ now < MaxColorCycles * Interval
        /\ Cycle(Some(snap))

SpecColor == Init /\ [][NextColor]_vars

-----------------------------------------------------------------------------
(* C27 *)

\* code r is code c with its letters in upper case
UpperCaseOf(r, c) ==
    /\ Len(r) = Len(c)
    /\ \A i \in DOMAIN c :
          <<c[i], r[i]>> \in {<<"a", "A">>, <<"b", "B">>, <<"c", "C">>,
                              <<"d", "D">>, <<"e", "E">>, <<"f", "F">>}
            \cup {<<x, x>> : x \in {c[i]} \ {"a", "b", "c", "d", "e", "f"}}

\* the normalized code stored with spool f (color_hex without its "#")
CodeOf(f) == Tail(f.color_hex[1])

\* C27 (SpecColor): strip_color_padding maps a code of 8 characters to its
\* first 6 in upper case and a code of 6 characters to itself in upper case,
\* returns no more than 6 characters, and returns its result unchanged when
\* applied to it.
C27_ColorNormalization ==
    \A k \in DOMAIN matched :
        ( /\ matched[k].method = "auto_created"
          /\ ~matched[k].raised
          /\ matched[k].tray_data.color # <<>> ) =>
            /\ filaments[matched[k].filament[1]].color_hex # None
            /\ Len(matched[k].tray_data.color) = 8
                 => UpperCaseOf(CodeOf(filaments[matched[k].filament[1]]),
                                SubSeq(matched[k].tray_data.color, 1, 6))
            /\ Len(matched[k].tray_data.color) = 6
                 => UpperCaseOf(CodeOf(filaments[matched[k].filament[1]]),
                                matched[k].tray_data.color)
            /\ Len(CodeOf(filaments[matched[k].filament[1]])) <= 6
            /\ strip_color_padding(CodeOf(filaments[matched[k].filament[1]]))
                 = Some(CodeOf(filaments[matched[k].filament[1]]))

\* a spool was created for the code ff6a13ff and stores #FF6A13
C27_Witness ==
    \E k \in DOMAIN matched :
        /\ matched[k].method = "auto_created"
        /\ ~matched[k].raised
        /\ matched[k].tray_data.color = <<"f", "f", "6", "a", "1", "3", "f", "f">>
        /\ filaments[matched[k].filament[1]].color_hex
             = Some(<<"#", "F", "F", "6", "A", "1", "3">>)

-----------------------------------------------------------------------------
(* C28 *)

\* C28 (Spec): when a cycle observes the slots exactly as the committed
\* cycle before it did, it resolves every observation to the spool the
\* earlier cycle resolved it to and creates no spool; also when that spool
\* was created by the earlier cycle for an observation without tray_uuid and
\* tag_uid, with a color name from the color registry.
C28_StableReResolution ==
    [][ ( /\ now' # now
          /\ outcome = "success"
          /\ observed # None
          /\ observed' = observed )
        => /\ outcome' = "success"
           /\ Len(filaments') = Len(filaments)
           /\ Len(matched') = Len(matched)
           /\ \A k \in DOMAIN matched :
                 matched'[k].filament = matched[k].filament ]_vars

-----------------------------------------------------------------------------
(* C29 *)

\* C29 (SpecUsage): the starting percent of a ConsumptionRecord is the
\* remaining percent of the start metric's slot snapshot of its slot and
\* spool whenever that percent is not null, for every value 0..100, and is
\* 100 only when that percent is null.
C29_StartingPercent ==
    \A u \in DOMAIN usages : \A a \in DOMAIN snapshots :
        ( /\ jobs[usages[u].print_job].start_metric
               = Some(snapshots[a].printer_metric)
          /\ snapshots[a].tray_id = usages[u].tray_id
          /\ snapshots[a].filament = Some(usages[u].filament) )
        => usages[u].starting_percent
             = (IF snapshots[a].remain_percent = None THEN 100
                ELSE snapshots[a].remain_percent[1])

-----------------------------------------------------------------------------
(* C30 *)

\* C30 (SpecFault): after a cycle whose transaction was rolled back, at
\* whatever write the exception was raised, the tracker agrees with the
\* store: every PrintJob that is open in the store is the tracker's open
\* job, and the tracker's open job is a row of the store.
C30_TrackerAfterRollback ==
    outcome = "error" =>
        /\ \A j \in OpenJobs :
              current_print_job # None /\ current_print_job[1].id = j
        /\ current_print_job # None =>
              /\ current_print_job[1].id \in DOMAIN jobs
              /\ jobs[current_print_job[1].id].end_time = None

-----------------------------------------------------------------------------
(* C31 *)

\* C31 (Spec): when a slot observation of a committed cycle resolves to a
\* spool that the table holds as loaded at that same slot, the update for
\* that observation leaves the spool's loaded flag, slot index and
\* last-loaded timestamp as they were and unloads no other spool.
C31_ConditionalLoadMarking ==
    [][ outcome' = "success" =>
          \A k \in DOMAIN matched' :
              LET before == matched'[k].before
                  after == IF k < Len(matched') THEN matched'[k + 1].before
                           ELSE filaments'
                  x == matched'[k].filament[1]
                  s == matched'[k].tray_data.tray_id
              IN  (x \in DOMAIN before /\ LoadedAt(before[x], s))
                    => /\ after[x].is_loaded_in_ams = before[x].is_loaded_in_ams
                       /\ after[x].current_tray_id = before[x].current_tray_id
                       /\ after[x].last_loaded_date = before[x].last_loaded_date
                       /\ \A y \in DOMAIN before :
                             before[y].is_loaded_in_ams => after[y].is_loaded_in_ams
      ]_vars

-----------------------------------------------------------------------------
(* mqtt_client.py: the accumulator with the callback on the transport's     *)
(* thread.  connect(blocking=False) returns to the collector, whose thread   *)
(* runs the cycles; _on_mqtt_message is called from the transport's thread.  *)
(* No lock guards _state_data.  _deep_merge assigns the keys of a message    *)
(* one after the other, in the order of the message, and the collector's     *)
(* thread can run between two assignments.  The pull is taken as one step.   *)

\* the orders in which the keys S of a message can stand in it
Orders(S) ==
    {o \in [1 .. Cardinality(S) -> S] : \A i, j \in DOMAIN o : i # j => o[i] # o[j]}

\* BambuPrinter._on_mqtt_message up to the for statement of _deep_merge: an
\* empty message is dropped; todo are the keys still to be assigned
BeginMerge(data, order) ==
    /\ exit_status = "running"
    /\ merging = None
    /\ data # EmptyDict
    /\ deltas' = Append(deltas, data)
    /\ received' = Some(data)
    /\ merging' = (IF "print" \in DOMAIN data /\ order # <<>>
                   THEN Some([update |-> data["print"].kids, todo |-> order])
                   ELSE None)
    /\ UNCHANGED <<filaments, metrics, snapshots, jobs, usages,
                   current_print_job, last_gcode_state, last_subtask_name,
                   trays_used, error_count, success_count, mqtt_connect_errors,
                   now, matched, outcome, observed, state_data, cleanup,
                   exit_status>>

\* one pass of the for loop of _deep_merge on _state_data["print"]: the next
\* key of the message is merged or assigned
MergeKey ==
    /\ merging # None
    /\ LET key == Head(merging[1].todo)
       IN  /\ state_data' = DeepMerge(state_data,
                                      [k \in {key} |-> merging[1].update[key]])
           /\ merging' = (IF Tail(merging[1].todo) = <<>> THEN None
                          ELSE Some([merging[1] EXCEPT !.todo = Tail(@)]))
    /\ UNCHANGED <<filaments, metrics, snapshots, jobs, usages,
                   current_print_job, last_gcode_state, last_subtask_name,
                   trays_used, error_count, success_count, mqtt_connect_errors,
                   now, matched, outcome, observed, received, deltas, cleanup,
                   exit_status>>

-----------------------------------------------------------------------------
(* Specification SpecConcurrent: up to MaxDeltas messages with the state    *)
(* and the subtask name arrive while the collector runs MaxPullCycles       *)
(* cycles.                                                                  *)

MaxDeltas == 2
MaxPullCycles == 2

ConcurrentMessages ==
    {[key \in {"print"} |-> Dict(d)] :
        d \in {[key \in {"gcode_state"} |-> Leaf(g)] : g \in {"RUNNING", "FINISH"}}
          \cup {[key \in {"gcode_state", "subtask_name"} |->
                   IF key = "gcode_state" THEN Leaf(m[1]) ELSE Leaf(m[2])] :
                 m \in {<<"RUNNING", "A">>, <<"FINISH", "A">>, <<"RUNNING", "B">>}}}
      \cup {[key \in {"info"} |-> Dict(EmptyDict)]}

NextConcurrent ==
    \/ \E data \in ConcurrentMessages :
         \E order \in Orders(IF "print" \in DOMAIN data
                             THEN DOMAIN data["print"].kids ELSE {}) :
            /\ Len(deltas) < MaxDeltas
            /\ BeginMerge(data, order)
    \/ MergeKey
    \/ /\ now < MaxPullCycles * Interval
       /\ Cycle(PullSnapshot)

SpecConcurrent == Init /\ [][NextConcurrent]_vars

\* _state_data["print"] after the first n of the messages ds, each merged
\* whole
RECURSIVE MergedPrefix(_, _)
MergedPrefix(ds, n) ==
    IF n = 0 THEN EmptyDict ELSE Update(MergedPrefix(ds, n - 1), ds[n])

-----------------------------------------------------------------------------
(* C32 *)

\* C32 (SpecConcurrent): every snapshot a cycle pulled is the projection of
\* the merge of a prefix of the messages received so far: the pull never
\* sees a message of which only a part has been merged.
C32_SnapshotConsistency ==
    observed # None =>
        \E n \in 0 .. Len(deltas) :
            observed[1] = GetStateSnapshot(MergedPrefix(deltas, n))

-----------------------------------------------------------------------------
(* C33 *)

\* C33 (SpecFault): whenever the tracker holds an open job the last recorded
\* state is not FINISH or FAILED; so a cycle that completes, reports FINISH
\* or FAILED and finds a job open finalizes that job: the tracker holds no
\* job afterwards and the job's row has its end time.
C33_OpenJobClosable ==
    [][ /\ current_print_job' # None => last_gcode_state' \notin TerminalStates
        /\ ( /\ now' # now
             /\ outcome' = "success"
             /\ current_print_job # None
             /\ observed'[1].gcode_state \in TerminalStates )
           => /\ current_print_job' = None
              /\ jobs'[current_print_job[1].id].end_time # None ]_vars

\* a terminal-state cycle has finalized the open job, after a cycle whose
\* finalization of that job had been rolled back
C33_Witness ==
    /\ outcome = "success"
    /\ error_count >= 1
    /\ current_print_job = None
    /\ metrics # <<>>
    /\ LastMetric.gcode_state \in TerminalStates
    /\ \E j \in DOMAIN jobs :
          /\ jobs[j].end_metric = Some(LastMetric.id)
          /\ jobs[j].start_metric # Some(LastMetric.id)

-----------------------------------------------------------------------------
(* Specification SpecSwap: cycles of a job "A" with slot 0 active, where    *)
(* the slot holds a tagged PLA spool, a tagged PETG spool or nothing, so    *)
(* that its spool can change or leave between the start and the end of the *)
(* job                                                                      *)

MaxSwapCycles == 3

SwapSnapshots ==
    {Snapshot(gcode_state, "A", 50, "0", slot0) :
        gcode_state \in {"RUNNING", "FINISH"},
        slot0 \in {<<>>}
                    \cup {<<TrayData(0, spool[1], spool[2], spool[3], "", Green,
                                     remain, 1000)>> :
                            spool \in {<<"U1", "T1", "PLA">>, <<"U2", "T2", "PETG">>},
                            remain \in {80, 60}}}

NextSwap ==
    \E snap \in SwapSnapshots :
        /\ now < MaxSwapCycles * Interval
        /\ Cycle(Some(snap))

SpecSwap == Init /\ [][NextSwap]_vars

-----------------------------------------------------------------------------
(* C34 *)

\* C34 (SpecSwap): when a cycle finalizes a job, then for every used slot s
\* whose start snapshot is resolved to spool F there is a ConsumptionRecord
\* of (job, s, F); its ending percent is the remaining percent of the end
\* metric's slot snapshot of s resolved to F, and when the end metric has no
\* such snapshot (the slot is empty or resolved to another spool) its ending
\* percent, consumed_percent and consumed_grams are null.
C34_EndingPercent ==
    [][ \A j \in DOMAIN jobs :
          (jobs[j].end_time = None /\ jobs'[j].end_time # None) =>
            \A s \in UsedSlots : \A a \in DOMAIN snapshots' :
              ( /\ snapshots'[a].printer_metric = jobs[j].start_metric[1]
                /\ snapshots'[a].tray_id = s
                /\ snapshots'[a].filament # None )
              => LET ends == {b \in DOMAIN snapshots' :
                                /\ snapshots'[b].printer_metric = Len(metrics')
                                /\ snapshots'[b].tray_id = s
                                /\ snapshots'[b].filament = snapshots'[a].filament}
                 IN  \E u \in DOMAIN usages' :
                        /\ u > Len(usages)
                        /\ usages'[u].print_job = j
                        /\ usages'[u].tray_id = s
                        /\ usages'[u].filament = snapshots'[a].filament[1]
                        /\ IF ends = {}
                           THEN /\ usages'[u].ending_percent = None
                                /\ usages'[u].consumed_percent = None
                                /\ usages'[u].consumed_grams = None
                           ELSE \A b \in ends :
                                  usages'[u].ending_percent
                                    = snapshots'[b].remain_percent ]_vars

\* a job is finalized whose slot 0 held spool 1 at the start and holds
\* another spool at the end: its record of spool 1 has no ending percent
C34_Witness ==
    \E u \in DOMAIN usages : \E b \in DOMAIN snapshots :
        /\ usages[u].ending_percent = None
        /\ usages[u].consumed_percent = None
        /\ usages[u].consumed_grams = None
        /\ jobs[usages[u].print_job].end_metric = Some(snapshots[b].printer_metric)
        /\ snapshots[b].tray_id = usages[u].tray_id
        /\ snapshots[b].filament # None
        /\ snapshots[b].filament # Some(usages[u].filament)

-----------------------------------------------------------------------------
(* C35 *)

\* C35 (Spec): no two slot snapshots of one metric record with different
\* slot indices are linked to the same spool: the observations of one cycle
\* are resolved to distinct spools.
C35_DistinctSpoolsPerCycle ==
    \A a, b \in DOMAIN snapshots :
        ( /\ snapshots[a].printer_metric = snapshots[b].printer_metric
          /\ snapshots[a].tray_id # snapshots[b].tray_id
          /\ snapshots[a].filament # None )
        => snapshots[a].filament # snapshots[b].filament

-----------------------------------------------------------------------------
(* C36 *)

\* C36 (SpecCleanup): a cleanup run with --keep-print-jobs, whatever the
\* operator answers to the prompt about orphaned metrics, deletes no
\* PrinterMetrics row that is the start metric or the end metric of a
\* PrintJob: every PrintJob keeps its start_metric and end_metric.
C36_OrphanCleanupKeepsJobMetrics ==
    [][ (cleanup' # cleanup /\ cleanup'[1].keep_print_jobs) =>
          \A j \in DOMAIN jobs :
              /\ jobs'[j].start_metric = jobs[j].start_metric
              /\ jobs'[j].end_metric = jobs[j].end_metric
              /\ \A i \in DOMAIN metrics :
                    (jobs[j].start_metric = Some(i) \/ jobs[j].end_metric = Some(i))
                        => metrics'[i] = metrics[i] ]_vars

-----------------------------------------------------------------------------
(* Specification SpecTrays: the tracker over MaxTrayCycles cycles of jobs   *)
(* "A" and "B" in which the device names as active slot a slot number, the  *)
(* sentinel 255, a number out of range, a non-number, '' or null.           *)

MaxTrayCycles == 4

TraySnapshots ==
    {Snapshot(gcode_state, subtask_name, 50, tray_now, <<>>) :
        gcode_state \in {"RUNNING", "FINISH"},
        subtask_name \in {"A", "B"},
        tray_now \in {"", NULL, "255", "0", "15", "16", "x"}}

NextTrays ==
    \E snap \in TraySnapshots :
        /\ now < MaxTrayCycles * Interval
        /\ Cycle(Some(snap))

SpecTrays == Init /\ [][NextTrays]_vars

\* the slot numbers 0..15 that text names in decimal
SlotsNamed(text) == {s \in 0 .. 15 : ToString(s) = text}

-----------------------------------------------------------------------------
(* C37 *)

-----------------------------------------------------------------------------
(* Specification SpecAuto: cycles on an empty inventory in which slot 0 of  *)
(* one loader unit holds a tagged PLA or PETG spool, and the device sends   *)
(* or leaves out the keys remain, tray_weight and tray_diameter of the      *)
(* tray.  received holds the loader units of the message the pulled         *)
(* snapshot was projected from.                                             *)

MaxAutoCycles == 2

\* the trays the device can report for slot 0
RawTrays ==
    {[id |-> 0, tray_type |-> spool[1], tray_uuid |-> spool[2],
      tray_color |-> Green] @@ remain @@ weight @@ diameter :
        spool \in {<<"PLA", "U1">>, <<"PETG", "U2">>},
        remain \in {EmptyDict, [remain |-> 50], [remain |-> 0]},
        weight \in {EmptyDict, [tray_weight |-> 750]},
        diameter \in {EmptyDict, [tray_diameter |-> 285]}}

\* an iteration of _run_continuous_loop that pulls the projection of the
\* loader units units
CycleOn(units) ==
    /\ exit_status = "running"
    /\ CollectPrinterData(Some(Snapshot("IDLE", "", 0, "255", AmsFilaments(units))))
    /\ received' = Some(units)
    /\ UNCHANGED <<state_data, merging, deltas, cleanup, exit_status>>

NextAuto ==
    \E tray \in RawTrays :
        /\ now < MaxAutoCycles * Interval
        /\ CycleOn(<< <<tray>> >>)

SpecAuto == Init /\ [][NextAuto]_vars

-----------------------------------------------------------------------------
(* C38 *)

\* C38 (SpecAuto): a spool created for a slot observation is marked loaded
\* at the observed slot with the remaining percent the device reported; its
\* initial weight and diameter are those the device reported for the tray,
\* or 1000 g and 1.75 mm where the device reported none; and its remaining
\* weight is that initial weight times the percent over 100.
C38_AutoCreatedSpool ==
    (outcome = "success" /\ received # None) =>
        \A k \in DOMAIN matched :
            matched[k].method = "auto_created" =>
                LET f == filaments[matched[k].filament[1]]
                    raw == received[1][1][k]
                    weight == KeyOr(raw, "tray_weight", 1000)
                IN  /\ LoadedAt(f, raw.id)
                    /\ "remain" \in DOMAIN raw => f.remaining_percent = raw.remain
                    /\ f.initial_weight_grams = Some(weight)
                    /\ f.diameter = KeyOr(raw, "tray_diameter", 175)
                    /\ f.remaining_weight_grams
                         = Some(GramsOf(weight, f.remaining_percent))

-----------------------------------------------------------------------------
(* C39 *)

\* C39 (SpecAuto): after any sequence of cycles every spool's stored
\* remaining percent is within 0..100 and its remaining weight is not
\* negative, also when the device reports no remaining value for a slot.
C39_RemainingPercentInRange ==
    \A i \in DOMAIN filaments :
        /\ filaments[i].remaining_percent \in 0 .. 100
        /\ filaments[i].remaining_weight_grams # None
             => filaments[i].remaining_weight_grams[1] >= 0

-----------------------------------------------------------------------------
(* Specification SpecAccount: the counters over MaxAccountCycles cycles of  *)
(* an idle printer with slot 0 empty or holding a tagged spool, where a     *)
(* cycle runs to its end or raises an exception at the pull, at a write or  *)
(* at the commit.                                                           *)

MaxAccountCycles == 3

AccountSnapshots ==
    {Snapshot("IDLE", "", 0, "255", fl) :
        fl \in {<<>>, <<TrayData(0, "U1", "T1", "PLA", "PLA Basic", Green, 80, 1000)>>}}

NextAccount ==
    \/ \E snap \in AccountSnapshots :
          /\ now < MaxAccountCycles * Interval
          /\ Cycle(Some(snap))
    \/ \E snap \in AccountSnapshots :
          \E at \in {"pull", "metric", "snapshot", "commit"} :
              /\ now < MaxAccountCycles * Interval
              /\ FaultyCycle(snap, at, "Exception")

SpecAccount == Init /\ [][NextAccount]_vars

-----------------------------------------------------------------------------
(* C40 *)

\* C40 (SpecAccount): every collection cycle adds one to exactly one of the
\* counters success_count, error_count and mqtt_connect_errors and leaves
\* the other two as they were; and success_count goes up only in a cycle
\* whose writes were committed (its PrinterMetrics row is in the table).
C40_CycleAccounting ==
    [][ now' # now =>
          /\ success_count' >= success_count
          /\ error_count' >= error_count
          /\ mqtt_connect_errors' >= mqtt_connect_errors
          /\ (success_count' - success_count) + (error_count' - error_count)
               + (mqtt_connect_errors' - mqtt_connect_errors) = 1
          /\ success_count' # success_count
               => Len(metrics') = Len(metrics) + 1 ]_vars

====
